---------------------------- MODULE Spec2Model ----------------------------
(***************************************************************************)
(* Model of the tree-packing optimizer (src/src_cpp/sa_v1_parallel.cpp).   *)
(*                                                                         *)
(* Numbers.  The program computes in double.  The model computes in        *)
(* integers on a fixed-point grid: a length is an integer number of        *)
(* 1/Unit, an angle an integer number of degrees, cos and sin are read     *)
(* from a table with four decimal digits and a rotated vertex is rounded   *)
(* to the grid.  Comparisons that the source writes with a division are    *)
(* cross-multiplied, so that they are exact on the grid.                   *)
(*                                                                         *)
(* Rounding.  On the grid the orientation test of three collinear points   *)
(* compares two equal products.  In double the two products are rounded,   *)
(* and the comparison is decided by the rounding errors of the vertices    *)
(* involved, which differ with the point the differences are taken from.   *)
(* The model keeps one bit of this per placed polygon (Inexact): whether   *)
(* its pose is exactly representable in binary.  It is stored as the third *)
(* component of every vertex and decides the tied orientation tests whose  *)
(* base point is that vertex.                                              *)
(***************************************************************************)
EXTENDS Integers, Sequences, FiniteSets, TLC

VARIABLES
    gA, gB,          \* geometry harness: the poses of two placed polygons
    gPA, gPB,        \* geometry harness: the polygons built from them
    gRes,            \* geometry harness: what overlap/side/score returned
    oName,           \* routine harness: the routine that is running
    oSt,             \* routine harness: its local variables
    oPc,             \* routine harness: "run", "ret" once it has returned
    oRet,            \* routine harness: what it returned
    pc,              \* main: where the driver is
    min_n, max_n,    \* main: the group range
    max_gens, max_no_improve, si, nr, seed_base,
    cfg,             \* main: the groups loadCSV returned
    best_so_far, current, local, has,
    global_best_score, generation, no_improvement_count,
    files,           \* the files written with saveCSV, in order
    thr,             \* the worker threads: the iteration each runs, its generator
    nextN            \* the next iteration the parallel loop hands out

geomVars == <<gA, gB, gPA, gPB, gRes>>
opsVars == <<oName, oSt, oPc, oRet>>
argVars == <<max_gens, max_no_improve, si, nr, seed_base>>
mainVars == <<cfg, best_so_far, current, local, has, global_best_score, generation,
              no_improvement_count, files, thr, nextN>>
vars == <<geomVars, opsVars, pc, min_n, max_n, argVars, mainVars>>

(***************************************************************************)
(* Constants of the program                                                *)
(***************************************************************************)
NV == 15
MAX_N == 200
\* grid units per unit of length (the representation of a double coordinate)
Unit == 2000
\* the fixed-point denominator of the cos/sin table
TrigDen == 10000

TX == <<0, 250, 125, 400, 200, 700, 150, 150, -150, -150, -700, -200, -400, -125, -250>>
TY == <<1600, 1000, 1000, 500, 500, 0, 0, -400, -400, 0, 0, 500, 500, 1000, 1000>>

\* sin(d degrees) * TrigDen, d = 0..90 (index d + 1)
SinTab == <<
    0, 175, 349, 523, 698, 872, 1045, 1219, 1392, 1564, 1736, 1908, 2079,
    2250, 2419, 2588, 2756, 2924, 3090, 3256, 3420, 3584, 3746, 3907, 4067, 4226,
    4384, 4540, 4695, 4848, 5000, 5150, 5299, 5446, 5592, 5736, 5878, 6018, 6157,
    6293, 6428, 6561, 6691, 6820, 6947, 7071, 7193, 7314, 7431, 7547, 7660, 7771,
    7880, 7986, 8090, 8192, 8290, 8387, 8480, 8572, 8660, 8746, 8829, 8910, 8988,
    9063, 9135, 9205, 9272, 9336, 9397, 9455, 9511, 9563, 9613, 9659, 9703, 9744,
    9781, 9816, 9848, 9877, 9903, 9925, 9945, 9962, 9976, 9986, 9994, 9998, 10000 >>

(***************************************************************************)
(* Arithmetic helpers                                                      *)
(***************************************************************************)
Min(a, b) == IF a < b THEN a ELSE b
Max(a, b) == IF a > b THEN a ELSE b
Abs(a) == IF a < 0 THEN -a ELSE a

\* a / b rounded to the nearest integer (b > 0), halves away from zero
RDiv(a, b) == IF a >= 0 THEN (2 * a + b) \div (2 * b)
                        ELSE -((2 * (-a) + b) \div (2 * b))

\* C's fmod(v, 360.0): the result has the sign of v
Fmod360(v) == IF v >= 0 THEN v % 360 ELSE -((-v) % 360)

\* sin and cos of an integer number of degrees, times TrigDen
SinDeg(d) ==
    LET Quadrant(r) == IF r <= 90 THEN <<1, r>>
                       ELSE IF r <= 180 THEN <<1, 180 - r>>
                       ELSE IF r <= 270 THEN <<-1, r - 180>>
                       ELSE <<-1, 360 - r>>
        Lookup(q) == q[1] * SinTab[q[2] + 1]
    IN  Lookup(Quadrant(d % 360))
CosDeg(d) == SinDeg(d + 90)

(***************************************************************************)
(* Poly, getPoly                                                           *)
(***************************************************************************)
\* Poly::bbox over the vertices p
BBoxOf(p) ==
    [x0 |-> CHOOSE v \in {p[i][1] : i \in 1..NV} : \A w \in {p[i][1] : i \in 1..NV} : v <= w,
     x1 |-> CHOOSE v \in {p[i][1] : i \in 1..NV} : \A w \in {p[i][1] : i \in 1..NV} : v >= w,
     y0 |-> CHOOSE v \in {p[i][2] : i \in 1..NV} : \A w \in {p[i][2] : i \in 1..NV} : v <= w,
     y1 |-> CHOOSE v \in {p[i][2] : i \in 1..NV} : \A w \in {p[i][2] : i \in 1..NV} : v >= w]

\* the largest power of two in Unit is 16: a coordinate is a binary fraction
\* exactly when it is a multiple of Unit / 16
BinaryStep == Unit \div 16

\* 1 when the vertices of the polygon at this pose carry a rounding error:
\* cx or cy is no binary fraction, or cos/sin are not 1 and 0
Inexact(cx, cy, deg) ==
    IF cx % BinaryStep = 0 /\ cy % BinaryStep = 0 /\ deg = 0 THEN 0 ELSE 1

\* the Poly of the vertices p with its bounding box b
PolyOf(p, b) == [p |-> p, x0 |-> b.x0, y0 |-> b.y0, x1 |-> b.x1, y1 |-> b.y1]

\* vertex i of the template rotated by (c, s) = (cos, sin) * TrigDen, moved
\* by (cx, cy), with the rounding bit e
Vertex(i, c, s, cx, cy, e) ==
    <<RDiv(TX[i] * c - TY[i] * s, TrigDen) + cx,
      RDiv(TX[i] * s + TY[i] * c, TrigDen) + cy, e>>

\* getPoly that rotates the template and leaves it at the origin
getPolyUnplaced(cx, cy, deg) ==
    LET Boxed(p) == PolyOf(p, BBoxOf(p))
    IN  Boxed([i \in 1..NV |->
                 Vertex(i, CosDeg(deg), SinDeg(deg), 0, 0, Inexact(cx, cy, deg))])

getPoly(cx, cy, deg) ==
    LET Boxed(p) == PolyOf(p, BBoxOf(p))
    IN  Boxed([i \in 1..NV |->
                 Vertex(i, CosDeg(deg), SinDeg(deg), cx, cy, Inexact(cx, cy, deg))])

(***************************************************************************)
(* pip, segInt, overlap                                                    *)
(***************************************************************************)
\* one edge (i, j) of pip's loop: does the ray from (px, py) cross it?
\* px < (xj - xi) * (py - yi) / (yj - yi) + xi, cross-multiplied
PipCross(px, py, pi, pj) ==
    /\ (pi[2] > py) # (pj[2] > py)
    /\ LET den == pj[2] - pi[2]
           num == (pj[1] - pi[1]) * (py - pi[2])
       IN  IF den > 0 THEN (px - pi[1]) * den < num
                      ELSE (px - pi[1]) * den > num

\* the parity of the number of crossed edges: j runs NV, 1, 2, ..., NV - 1
pip(px, py, q) ==
    Cardinality({i \in 1..NV :
        PipCross(px, py, q.p[i], q.p[IF i = 1 THEN NV ELSE i - 1])}) % 2 = 1

\* (r.y - p.y) * (q.x - p.x) > (q.y - p.y) * (r.x - p.x); two equal products
\* that are not zero compare by the rounding of the differences taken from p
ccw(p, q, r) ==
    LET lhs == (r[2] - p[2]) * (q[1] - p[1])
        rhs == (q[2] - p[2]) * (r[1] - p[1])
    IN  IF lhs = rhs /\ lhs # 0 THEN p[3] = 1 ELSE lhs > rhs

segInt(a, b, c, d) ==
    /\ ccw(a, c, d) # ccw(b, c, d)
    /\ ccw(a, b, c) # ccw(a, b, d)

Nxt(i) == (i % NV) + 1

overlap(a, b) ==
    IF a.x1 < b.x0 \/ b.x1 < a.x0 \/ a.y1 < b.y0 \/ b.y1 < a.y0 THEN FALSE
    ELSE \/ \E i \in 1..NV : \/ pip(a.p[i][1], a.p[i][2], b)
                             \/ pip(b.p[i][1], b.p[i][2], a)
         \/ \E i \in 1..NV : \E j \in 1..NV :
                segInt(a.p[i], a.p[Nxt(i)], b.p[j], b.p[Nxt(j)])


(***************************************************************************)
(* Cfg: n, x[], y[], a[] and the cached polygons pl[]                      *)
(* (the arrays are 1-based here; index i of the source is i + 1)           *)
(***************************************************************************)
\* a Cfg with the given poses whose cache has been rebuilt (Cfg::updAll)
MkCfg(xs, ys, as) ==
    [n |-> Len(xs), x |-> xs, y |-> ys, a |-> as,
     pl |-> [i \in 1..Len(xs) |-> getPoly(xs[i], ys[i], as[i])]]

\* an upd that leaves the cached polygon as it is
updStale(c, i) == c

upd(c, i) == [c EXCEPT !.pl[i] = getPoly(c.x[i], c.y[i], c.a[i])]

updAll(c) == [c EXCEPT !.pl = [i \in 1..c.n |-> getPoly(c.x[i], c.y[i], c.a[i])]]

hasOvl(c, i) == \E j \in 1..c.n : i # j /\ overlap(c.pl[i], c.pl[j])

hasOvlPair(c, i, j) ==
    \/ overlap(c.pl[i], c.pl[j])
    \/ \E k \in 1..c.n :
          /\ k # i /\ k # j
          /\ (overlap(c.pl[i], c.pl[k]) \/ overlap(c.pl[j], c.pl[k]))

anyOvl(c) == \E i \in 1..c.n : \E j \in (i + 1)..c.n : overlap(c.pl[i], c.pl[j])

SetMin(S) == CHOOSE v \in S : \A w \in S : v <= w
SetMax(S) == CHOOSE v \in S : \A w \in S : v >= w

\* Cfg::getBBox (for n >= 1)
getBBox(c) ==
    [gx0 |-> SetMin({c.pl[i].x0 : i \in 1..c.n}),
     gy0 |-> SetMin({c.pl[i].y0 : i \in 1..c.n}),
     gx1 |-> SetMax({c.pl[i].x1 : i \in 1..c.n}),
     gy1 |-> SetMax({c.pl[i].y1 : i \in 1..c.n})]

\* side taken as the horizontal extent alone
sideWidthOnly(c) ==
    IF c.n = 0 THEN 0
    ELSE LET b == getBBox(c) IN b.gx1 - b.gx0

side(c) ==
    IF c.n = 0 THEN 0
    ELSE LET b == getBBox(c) IN Max(b.gx1 - b.gx0, b.gy1 - b.gy0)

\* Cfg::score is s * s / n; the quotient is kept as numerator and denominator
score(c) == [num |-> side(c) * side(c), den |-> c.n]

\* a < b - tol for two quotients of one denominator, tol = tolNum / tolDen
\* in squared grid units (1e-9 is 1 / 250, 1e-8 is 1 / 25)
ScoreLess(a, b, tolNum, tolDen) ==
    a.num - b.num < -((tolNum * a.den) \div tolDen)

\* Cfg::centroid, rounded to the grid
centroid(c) ==
    LET Sum[k \in 0..c.n] == IF k = 0 THEN <<0, 0>>
                             ELSE <<Sum[k - 1][1] + c.x[k], Sum[k - 1][2] + c.y[k]>>
    IN  <<RDiv(Sum[c.n][1], c.n), RDiv(Sum[c.n][2], c.n)>>

\* eps = 0.01 in grid units
CornerEps == 20

\* Cfg::findCornerTrees: the indices, ascending
findCornerTrees(c) ==
    LET b == getBBox(c)
        IsCorner(i) == \/ Abs(c.pl[i].x0 - b.gx0) < CornerEps
                       \/ Abs(c.pl[i].x1 - b.gx1) < CornerEps
                       \/ Abs(c.pl[i].y0 - b.gy0) < CornerEps
                       \/ Abs(c.pl[i].y1 - b.gy1) < CornerEps
    IN  SelectSeq([i \in 1..c.n |-> i], IsCorner)

(***************************************************************************)
(* The thread-local generator: rng(42), rf(), ri(n)                        *)
(*                                                                         *)
(* std::mt19937_64 is a deterministic function of the seed and of the      *)
(* number of values drawn since seeding.  The model keeps exactly that: a  *)
(* generator is [seed, ctr], and the value it yields is Raw(seed, ctr), a  *)
(* fixed mixing function with RngRange values.  rf() is Raw / RngRange and *)
(* ri(n) is Raw % n; each consumes one value.                              *)
(***************************************************************************)
RngRange == 24
DefaultSeed == 42

Raw(seed, k) ==
    LET h1 == ((seed % 9973) * 7919 + (k % 9973) * 5471 + 12345) % 10007
        h2 == (h1 * h1 + (k % 9973) * 3 + (seed % 9973)) % 10007
    IN  (h2 \div 7) % RngRange

Seeded(seed) == [seed |-> seed, ctr |-> 0]

\* rng.seed(seed) on the generator rng of the calling thread
Reseed(rng, seed) == Seeded(seed)

\* the value of the k-th draw from now (k = 0 is the next one)
Draw(rng, k) == Raw(rng.seed, rng.ctr + k)

Advance(rng, k) == [rng EXCEPT !.ctr = @ + k]

\* the smallest k >= from whose draw, taken % n, differs from i:
\* the position at which `while (j == i) j = ri(c.n)` stops
RECURSIVE RedrawPos(_, _, _, _)
RedrawPos(rng, from, n, i) ==
    IF Draw(rng, from) % n # i THEN from ELSE RedrawPos(rng, from + 1, n, i)

\* 100 * ln(RngRange / m), m = 1 .. RngRange - 1: rf() = m / RngRange is below
\* exp(-z) exactly when z < ln(RngRange / m)
LnTab == <<318, 248, 208, 179, 157, 139, 123, 110, 98, 88, 78, 69, 61, 54, 47,
           41, 34, 29, 23, 18, 13, 9, 4>>

\* the largest z for which exp(-z) is not zero in double
ExpUnderflow == 745

\* integer square root, rounded to the nearest
RECURSIVE SqrtIter(_, _)
SqrtIter(v, r) ==
    LET r2 == (r + v \div r) \div 2
    IN  IF r2 >= r THEN r ELSE SqrtIter(v, r2)

ISqrt(v) ==
    IF v <= 0 THEN 0
    ELSE LET r == SqrtIter(v, v)
         IN  IF v - r * r > r THEN r + 1 ELSE r

\* the length of (dx, dy)
Dist(dx, dy) == ISqrt(dx * dx + dy * dy)

(***************************************************************************)
(* sa_v3                                                                   *)
(*                                                                         *)
(* T, T0, Tm are in units of 1 / TDen; alpha is in units of 1 / AlphaDen.  *)
(***************************************************************************)
TDen == 1000000
AlphaDen == 1000
ReheatAfter == 600

\* v multiplied k times by a, rounded down after each multiplication (the k
\* multiplications are run as the first half of them, then the second half)
RECURSIVE PowFrom(_, _, _)
PowFrom(v, a, k) ==
    IF k = 0 THEN v
    ELSE IF k = 1 THEN (v * a) \div AlphaDen
    ELSE CHOOSE r \in {PowFrom(h, a, k - (k \div 2)) :
                       h \in {PowFrom(v, a, k \div 2)}} : TRUE

\* a^k in units of 1 / TDen, a in units of 1 / AlphaDen
PowFix(a, k) == PowFrom(TDen, a, k)

\* the largest a in lo..hi with a^k <= ratio
RECURSIVE AlphaBis(_, _, _, _)
AlphaBis(lo, hi, k, ratio) ==
    IF lo >= hi THEN lo
    ELSE LET mid == (lo + hi + 1) \div 2
         IN  IF PowFix(mid, k) <= ratio THEN AlphaBis(mid, hi, k, ratio)
                                        ELSE AlphaBis(lo, mid - 1, k, ratio)

\* alpha = pow(Tm / T0, 1.0 / iter)
AlphaOf(T0, Tm, iter) ==
    IF iter <= 0 THEN 0
    ELSE AlphaBis(0, AlphaDen, iter, (Tm * TDen) \div T0)

\* T *= alpha; without the clamp at Tm
CoolUnclamped(T, alpha, Tm) == (T * alpha) \div AlphaDen

\* T *= alpha; if (T < Tm) T = Tm;
Cool(T, alpha, Tm) == Max((T * alpha) \div AlphaDen, Tm)

\* (rf() - 0.5) * 2 * amp for the draw raw
Sym2(raw, amp) == RDiv((2 * raw - RngRange) * amp, RngRange)
\* (rf() - 0.5) * amp
Sym1(raw, amp) == RDiv((2 * raw - RngRange) * amp, 2 * RngRange)
\* rf() * amp
Pos1(raw, amp) == RDiv(raw * amp, RngRange)

\* the state of one sa_v3 call after rng.seed(seed) and the declarations
SaInit(rng, c, iter, T0, Tm, ms, rs, seed) ==
    [n |-> c.n, best |-> c, cur |-> c, bs |-> side(c), cs |-> side(c),
     T |-> T0, T0 |-> T0, Tm |-> Tm, alpha |-> AlphaOf(T0, Tm, iter),
     ms |-> ms, rs |-> rs, noImp |-> 0, it |-> 0, iter |-> iter,
     rng |-> Reseed(rng, seed), last |-> "init"]

\* cur with the pose of polygon i set and its cache rebuilt
SetPose(c, i, nx, ny, na) ==
    upd([c EXCEPT !.x[i] = nx, !.y[i] = ny, !.a[i] = na], i)

\* a step of the polygon at (x, y) towards (tx, ty) by st, when d > 1e-6
Toward(x, y, tx, ty, st) ==
    LET dx == tx - x
        dy == ty - y
        d  == Dist(dx, dy)
    IN  IF d > 0 THEN <<x + RDiv(dx * st, d), y + RDiv(dy * st, d)>>
                 ELSE <<x, y>>

\* the poses <<i, x, y, a>> of the list ch written into c from position k
\* on, each followed by upd(i)
RECURSIVE SetPoses(_, _, _)
SetPoses(c, ch, k) ==
    IF k > Len(ch) THEN c
    ELSE SetPoses(SetPose(c, ch[k][1], ch[k][2], ch[k][3], ch[k][4]), ch, k + 1)

\* the poses the polygons named in ch have in c
OldPoses(c, ch) ==
    [k \in 1..Len(ch) |-> <<ch[k][1], c.x[ch[k][1]], c.y[ch[k][1]], c.a[ch[k][1]]>>]

\* The move one step proposes: the new poses ch of the one or two polygons
\* it moves (none when move 6 finds no corner polygon), and the number k of
\* values drawn.  msc = ms * sc and rsc = rs * sc with sc = T / T0.
SaPropose(st) ==
    LET cur == st.cur
        n   == st.n
        moveType == Draw(st.rng, 0) % 8
        msc == RDiv(st.ms * st.T, st.T0)
        rsc == RDiv(st.rs * st.T, st.T0)
        i   == (Draw(st.rng, 1) % n) + 1
        \* the step of polygon idx towards (tx, ty) by amp * rf(), and its
        \* new angle na, when the distance is above 1e-6
        Pull(idx, tx, ty, amp, na, kFar) ==
            IF Dist(tx - cur.x[idx], ty - cur.y[idx]) > 0
            THEN [ch |-> <<<<idx,
                             Toward(cur.x[idx], cur.y[idx], tx, ty,
                                    Pos1(Draw(st.rng, 2), amp))[1],
                             Toward(cur.x[idx], cur.y[idx], tx, ty,
                                    Pos1(Draw(st.rng, 2), amp))[2],
                             na>>>>,
                  k |-> kFar, mt |-> moveType]
            ELSE [ch |-> <<<<idx, cur.x[idx], cur.y[idx], cur.a[idx]>>>>,
                  k |-> 2, mt |-> moveType]
        BoxPull(idx, b, amp, na, kFar) ==
            Pull(idx, RDiv(b.gx0 + b.gx1, 2), RDiv(b.gy0 + b.gy1, 2), amp, na, kFar)
        CornerTurn(idx) ==
            BoxPull(idx, getBBox(cur), RDiv(3 * msc, 10),
                    Fmod360(cur.a[idx] + Sym1(Draw(st.rng, 3), RDiv(rsc, 2)) + 360), 4)
        CornerPull(corners) ==
            IF corners # <<>>
            THEN CornerTurn(corners[(Draw(st.rng, 1) % Len(corners)) + 1])
            ELSE [ch |-> <<>>, k |-> 1, mt |-> moveType]
        Swap(j, jp) ==
            [ch |-> <<<<i, cur.x[j], cur.y[j], cur.a[i]>>,
                      <<j, cur.x[i], cur.y[i], cur.a[j]>>>>,
             k |-> jp + 1, mt |-> moveType]
        Shift(j, dx, dy) ==
            [ch |-> <<<<i, cur.x[i] + dx, cur.y[i] + dy, cur.a[i]>>,
                      IF j = i THEN <<j, cur.x[i] + 2 * dx, cur.y[i] + 2 * dy, cur.a[i]>>
                               ELSE <<j, cur.x[j] + dx, cur.y[j] + dy, cur.a[j]>>>>,
             k |-> 4, mt |-> moveType]
    IN
    IF moveType = 0 THEN
        [ch |-> <<<<i, cur.x[i] + Sym2(Draw(st.rng, 2), msc),
                       cur.y[i] + Sym2(Draw(st.rng, 3), msc), cur.a[i]>>>>,
         k |-> 4, mt |-> moveType]
    ELSE IF moveType = 1 THEN
        Pull(i, centroid(cur)[1], centroid(cur)[2], msc, cur.a[i], 3)
    ELSE IF moveType = 2 THEN
        [ch |-> <<<<i, cur.x[i], cur.y[i],
                    Fmod360(cur.a[i] + Sym2(Draw(st.rng, 2), rsc) + 360)>>>>,
         k |-> 3, mt |-> moveType]
    ELSE IF moveType = 3 THEN
        [ch |-> <<<<i, cur.x[i] + Sym1(Draw(st.rng, 2), msc),
                       cur.y[i] + Sym1(Draw(st.rng, 3), msc),
                       Fmod360(cur.a[i] + Sym1(Draw(st.rng, 4), rsc) + 360)>>>>,
         k |-> 5, mt |-> moveType]
    ELSE IF moveType = 4 /\ n > 1 THEN
        Swap((Draw(st.rng, RedrawPos(st.rng, 2, n, i - 1)) % n) + 1,
             RedrawPos(st.rng, 2, n, i - 1))
    ELSE IF moveType = 5 THEN
        BoxPull(i, getBBox(cur), RDiv(msc, 2), cur.a[i], 3)
    ELSE IF moveType = 6 THEN
        CornerPull(findCornerTrees(cur))
    ELSE
        Shift((i % n) + 1, Sym1(Draw(st.rng, 2), RDiv(msc, 2)),
              Sym1(Draw(st.rng, 3), RDiv(msc, 2)))

\* The tentative move of one step: the configuration after the move or after
\* its revert, whether the step ends early (`continue`), and the number of
\* values drawn.
SaMove(st) ==
    LET Blocked(c1, ch) == IF Len(ch) = 2 THEN hasOvlPair(c1, ch[1][1], ch[2][1])
                                          ELSE hasOvl(c1, ch[1][1])
        Settle(m, c1) ==
            IF m.ch = <<>> THEN [cur |-> st.cur, early |-> TRUE, k |-> m.k, mt |-> m.mt]
            ELSE IF Blocked(c1, m.ch)
            THEN [cur |-> SetPoses(c1, OldPoses(st.cur, m.ch), 1), early |-> TRUE,
                  k |-> m.k, mt |-> m.mt]
            ELSE [cur |-> c1, early |-> FALSE, k |-> m.k, mt |-> m.mt]
        Try(m) == Settle(m, SetPoses(st.cur, m.ch, 1))
    IN  Try(SaPropose(st))

\* rf() < exp(-delta / T) for the draw raw, delta >= 0 in grid units
Metropolis(raw, delta, T) ==
    IF (TDen \div Unit) * delta > ExpUnderflow * T THEN FALSE
    ELSE IF raw = 0 THEN TRUE
    ELSE 100 * (TDen \div Unit) * delta < LnTab[raw] * T

\* the end of an iteration that was not cut short: the reheat test, the
\* cooling and the k values drawn
SaCool(st, s1, k) ==
    [s1 EXCEPT !.T = Cool(IF s1.noImp > ReheatAfter
                          THEN Min(s1.T * 3, (7 * s1.T0) \div 10) ELSE s1.T,
                          st.alpha, st.Tm),
               !.noImp = IF s1.noImp > ReheatAfter THEN 0 ELSE s1.noImp,
               !.rng = Advance(@, k), !.it = @ + 1]

\* an acceptance test whose rejection goes back to the configuration before
\* the move
SaAcceptStepBack(st, cur1, ns, k) ==
    IF ns - st.cs < 0 \/ Metropolis(Draw(st.rng, k), ns - st.cs, st.T) THEN
        IF ns < st.bs
        THEN SaCool(st, [st EXCEPT !.cur = cur1, !.cs = ns, !.bs = ns,
                                   !.best = cur1, !.noImp = 0, !.last = "improved"],
                    IF ns - st.cs < 0 THEN k ELSE k + 1)
        ELSE SaCool(st, [st EXCEPT !.cur = cur1, !.cs = ns, !.noImp = @ + 1,
                                   !.last = "accepted"],
                    IF ns - st.cs < 0 THEN k ELSE k + 1)
    ELSE SaCool(st, [st EXCEPT !.noImp = @ + 1, !.last = "rejected"], k + 1)

\* the acceptance test on the moved configuration cur1 of side ns, after k draws
SaAccept(st, cur1, ns, k) ==
    IF ns - st.cs < 0 \/ Metropolis(Draw(st.rng, k), ns - st.cs, st.T) THEN
        IF ns < st.bs
        THEN SaCool(st, [st EXCEPT !.cur = cur1, !.cs = ns, !.bs = ns,
                                   !.best = cur1, !.noImp = 0, !.last = "improved"],
                    IF ns - st.cs < 0 THEN k ELSE k + 1)
        ELSE SaCool(st, [st EXCEPT !.cur = cur1, !.cs = ns, !.noImp = @ + 1,
                                   !.last = "accepted"],
                    IF ns - st.cs < 0 THEN k ELSE k + 1)
    ELSE SaCool(st, [st EXCEPT !.cur = st.best, !.cs = st.bs, !.noImp = @ + 1,
                               !.last = "rejected"], k + 1)

\* an iteration that makes the reheat test after an early end as well
SaAfterMoveReheating(st, m) ==
    IF m.early THEN
        SaCool(st, [st EXCEPT !.cur = m.cur, !.noImp = @ + 1, !.last = "reverted"], m.k)
    ELSE SaAccept(st, m.cur, side(m.cur), m.k)

\* the iteration once the tentative move m is known
SaAfterMove(st, m) ==
    IF m.early THEN
        [st EXCEPT !.cur = m.cur, !.noImp = @ + 1,
                   !.T = Cool(st.T, st.alpha, st.Tm),
                   !.rng = Advance(@, m.k), !.it = @ + 1, !.last = "reverted"]
    ELSE SaAccept(st, m.cur, side(m.cur), m.k)

\* one iteration of the loop of sa_v3
SaStep(st) == SaAfterMove(st, SaMove(st))

\* for (int it = 0; it < iter; it++): the steps still to run
RECURSIVE SaLoop(_)
SaLoop(st) ==
    LET Rest(s1) == IF s1.it >= s1.iter THEN s1 ELSE SaLoop(s1)
    IN  IF st.it >= st.iter THEN st ELSE Rest(SaStep(st))

\* Cfg sa_v3(c, iter, T0, Tm, ms, rs, seed) on the thread whose generator is
\* rng: the returned Cfg and the generator as the call leaves it
sa_v3(rng, c, iter, T0, Tm, ms, rs, seed) ==
    LET Return(fin) == [cfg |-> fin.best, rng |-> fin.rng]
    IN  Return(SaLoop(SaInit(rng, c, iter, T0, Tm, ms, rs, seed)))

(***************************************************************************)
(* ls_v3 and fractional_translation                                        *)
(*                                                                         *)
(* The step tables hold the steps of the source that are whole numbers of  *)
(* grid units (ps: 0.02 .. 0.0005; rs: 15 .. 1 degrees; frac_steps: 0.001, *)
(* 0.0005).  On the grid, ns < bs - 1e-10 and ns < bs - 1e-12 are ns < bs. *)
(***************************************************************************)
LsPs == <<40, 20, 10, 4, 2, 1>>
LsRs == <<15, 10, 5, 2, 1>>
LsDx == <<1, -1, 0, 0, 1, 1, -1, -1>>
LsDy == <<0, 0, 1, -1, 1, -1, 1, -1>>
FtSteps == <<2, 1>>
FtDx == <<0, 0, 1, -1, 1, 1, -1, -1>>
FtDy == <<1, -1, 0, 0, 1, -1, 1, -1>>

\* a test that keeps every feasible move
ImprovesAlways(ns, bs) == TRUE

\* ns < bs - tolerance
Improves(ns, bs) == ns < bs

\* the tentative moves ls_v3 makes on one polygon, in order:
\* <<dx, dy, da>> is added to its pose
LsMoves ==
    [k \in 1..(Len(LsPs) * 8) |->
        <<LsDx[((k - 1) % 8) + 1] * LsPs[((k - 1) \div 8) + 1],
          LsDy[((k - 1) % 8) + 1] * LsPs[((k - 1) \div 8) + 1], 0>>]
    \o [k \in 1..(Len(LsRs) * 2) |->
        <<0, 0, IF k % 2 = 1 THEN LsRs[((k - 1) \div 2) + 1]
                             ELSE -LsRs[((k - 1) \div 2) + 1]>>]

FtMoves ==
    [k \in 1..(Len(FtSteps) * 8) |->
        <<FtDx[((k - 1) % 8) + 1] * FtSteps[((k - 1) \div 8) + 1],
          FtDy[((k - 1) % 8) + 1] * FtSteps[((k - 1) \div 8) + 1], 0>>]

\* One tentative move of polygon i by mv on w = [best, bs, imp]: the move is
\* kept when the polygon overlaps nothing and side improves, else reverted.
\* A rotation goes through fmod(a + da + 360, 360).
TryMove(w, i, mv) ==
    LET b  == w.best
        na == IF mv[3] = 0 THEN b.a[i] ELSE Fmod360(b.a[i] + mv[3] + 360)
        Keep(c1, ns) ==
            IF ~hasOvl(c1, i) /\ Improves(ns, w.bs)
            THEN [best |-> c1, bs |-> ns, imp |-> TRUE]
            ELSE [w EXCEPT !.best = SetPose(c1, i, b.x[i], b.y[i], b.a[i])]
        Measure(c1) == Keep(c1, side(c1))
    IN  Measure(SetPose(b, i, b.x[i] + mv[1], b.y[i] + mv[2], na))

\* the moves lo..hi of the list, in order, on polygon i (the range is run
\* as its first half, then its second half, on the result of the first)
RECURSIVE TryMoves(_, _, _, _, _)
TryMoves(w, i, moves, lo, hi) ==
    IF lo > hi THEN w
    ELSE IF lo = hi THEN TryMove(w, i, moves[lo])
    ELSE LET Rest(w1, mid) ==
                 IF w1.bs > w.bs THEN w1 ELSE TryMoves(w1, i, moves, mid + 1, hi)
             Halves(mid) == Rest(TryMoves(w, i, moves, lo, mid), mid)
         IN  Halves((lo + hi) \div 2)

\* the polygons of the order from position k on
RECURSIVE TryPolys(_, _, _, _)
TryPolys(w, order, moves, k) ==
    IF k > Len(order) THEN w
    ELSE LET Rest(w1) == IF w1.bs > w.bs THEN w1
                                         ELSE TryPolys(w1, order, moves, k + 1)
         IN  Rest(TryMoves(w, order[k], moves, 1, Len(moves)))

\* the order of one pass of ls_v3: the corner polygons found at the start of
\* the pass, then the others by index
LsOrder(c) ==
    LET corners == findCornerTrees(c)
        IsCorner(i) == \E k \in 1..Len(corners) : corners[k] = i
        NotCorner(i) == ~IsCorner(i)
    IN  corners \o SelectSeq([i \in 1..c.n |-> i], NotCorner)

LsPass(w) == TryPolys([w EXCEPT !.imp = FALSE], LsOrder(w.best), LsMoves, 1)

FtPass(w) == TryPolys([w EXCEPT !.imp = FALSE], [i \in 1..w.best.n |-> i], FtMoves, 1)

RECURSIVE LsLoop(_, _, _)
LsLoop(w, it, iter) ==
    IF it >= iter THEN w
    ELSE LET Rest(w1) == IF w1.imp THEN LsLoop(w1, it + 1, iter) ELSE w1
         IN  Rest(LsPass(w))

RECURSIVE FtLoop(_, _, _)
FtLoop(w, it, iter) ==
    IF it >= iter THEN w
    ELSE LET Rest(w1) == IF w1.imp THEN FtLoop(w1, it + 1, iter) ELSE w1
         IN  Rest(FtPass(w))

ls_v3(c, iter) == LsLoop([best |-> c, bs |-> side(c), imp |-> FALSE], 0, iter).best

fractional_translation(c, max_iter) ==
    FtLoop([best |-> c, bs |-> side(c), imp |-> FALSE], 0, max_iter).best

(***************************************************************************)
(* perturb                                                                 *)
(***************************************************************************)
RepairPasses == 100
\* 0.02 in grid units: the outward nudge of a repair pass
RepairStep == 40

\* the k-th of the numPerturb kicks (4 values drawn each); no upd yet
RECURSIVE PerturbKicks(_, _, _, _)
PerturbKicks(c, rng, strength, left) ==
    IF left = 0 THEN [cfg |-> c, rng |-> rng]
    ELSE LET Kick(i) == [c EXCEPT !.x[i] = @ + Sym1(Draw(rng, 1), strength),
                                  !.y[i] = @ + Sym1(Draw(rng, 2), strength),
                                  !.a[i] = Fmod360(@ + Sym1(Draw(rng, 3), 60) + 360)]
         IN  PerturbKicks(Kick((Draw(rng, 0) % c.n) + 1), Advance(rng, 4), strength,
                          left - 1)

\* polygon i of one repair pass: w = [cfg, rng, fixed]
RepairPoly(w, i) ==
    IF ~hasOvl(w.cfg, i) THEN w
    ELSE LET c == w.cfg
             Nudge(dx, dy, d, na) ==
                 [cfg |-> SetPose(c, i,
                                  IF d > 0 THEN c.x[i] - RDiv(dx * RepairStep, d) ELSE c.x[i],
                                  IF d > 0 THEN c.y[i] - RDiv(dy * RepairStep, d) ELSE c.y[i],
                                  na),
                  rng |-> Advance(w.rng, 1), fixed |-> FALSE]
             Away(dx, dy) ==
                 Nudge(dx, dy, Dist(dx, dy),
                       Fmod360(c.a[i] + Pos1(Draw(w.rng, 0), 20) - 10 + 360))
             From(cen) == Away(cen[1] - c.x[i], cen[2] - c.y[i])
         IN  From(centroid(c))

RECURSIVE RepairPolys(_, _)
RepairPolys(w, i) ==
    IF i > w.cfg.n THEN w ELSE RepairPolys(RepairPoly(w, i), i + 1)

\* one pass of the repair loop; a pass after the `break` changes nothing
RepairPass(w) ==
    IF w.fixed THEN w ELSE RepairPolys([w EXCEPT !.fixed = TRUE], 1)

\* the passes lo..hi of `for (int iter = 0; iter < 100; iter++)` (run as the
\* first half of the range, then the second half)
RECURSIVE RepairLoop(_, _, _)
RepairLoop(w, lo, hi) ==
    IF lo > hi THEN w
    ELSE IF lo = hi THEN RepairPass(w)
    ELSE LET Rest(w1, mid) == IF w1.fixed THEN w1 ELSE RepairLoop(w1, mid + 1, hi)
             Halves(mid) == Rest(RepairLoop(w, lo, mid), mid)
         IN  Halves((lo + hi) \div 2)

\* Cfg perturb(c, strength, seed): the returned Cfg and the generator
perturb(rng, c, strength, seed) ==
    LET numPerturb == Max(1, (c.n * 15) \div 100)
        Return(w) == [cfg |-> w.cfg, rng |-> w.rng]
        Repair(k) == Return(RepairLoop([cfg |-> updAll(k.cfg), rng |-> k.rng,
                                        fixed |-> FALSE], 1, RepairPasses))
    IN  Repair(PerturbKicks(c, Reseed(rng, seed), strength, numPerturb))

(***************************************************************************)
(* scale_cfg, resolve_overlaps, compress_cfg                               *)
(* (a factor is in units of 1 / FactorDen)                                 *)
(***************************************************************************)
FactorDen == 1000

scale_cfg(c, factor) ==
    updAll([c EXCEPT !.x = [i \in 1..c.n |-> RDiv(c.x[i] * factor, FactorDen)],
                     !.y = [i \in 1..c.n |-> RDiv(c.y[i] * factor, FactorDen)]])

\* a pair that is pushed apart without any = true
ResolvePairQuiet(w, i, j, step) ==
    IF ~overlap(w.cfg.pl[i], w.cfg.pl[j]) THEN w
    ELSE [w EXCEPT !.cfg = SetPoses(w.cfg,
                                    <<<<i, w.cfg.x[i] + step, w.cfg.y[i], w.cfg.a[i]>>,
                                      <<j, w.cfg.x[j] - step, w.cfg.y[j], w.cfg.a[j]>>>>, 1)]

\* the pair (i, j) of one pass: w = [cfg, rng, any]
ResolvePair(w, i, j, step) ==
    IF ~overlap(w.cfg.pl[i], w.cfg.pl[j]) THEN w
    ELSE LET c  == w.cfg
             Push(sx, sy, k) ==
                 [cfg |-> SetPoses(c, <<<<i, c.x[i] + sx, c.y[i] + sy, c.a[i]>>,
                                        <<j, c.x[j] - sx, c.y[j] - sy, c.a[j]>>>>, 1),
                  rng |-> Advance(w.rng, k), any |-> TRUE]
             Apart(dx, dy, d, ang) ==
                 IF d > 0 THEN Push(RDiv(dx * step, d), RDiv(dy * step, d), 0)
                 ELSE Push(RDiv(CosDeg(ang) * step, TrigDen),
                           RDiv(SinDeg(ang) * step, TrigDen), 1)
             Along(dx, dy) == Apart(dx, dy, Dist(dx, dy), Pos1(Draw(w.rng, 0), 360))
         IN  Along(c.x[i] - c.x[j], c.y[i] - c.y[j])

\* the pairs in the order of the two loops, from (i, j) on
RECURSIVE ResolvePairs(_, _, _, _)
ResolvePairs(w, i, j, step) ==
    IF i > w.cfg.n THEN w
    ELSE IF j > w.cfg.n THEN ResolvePairs(w, i + 1, i + 2, step)
    ELSE ResolvePairs(ResolvePair(w, i, j, step), i, j + 1, step)

RECURSIVE ResolveLoop(_, _, _, _)
ResolveLoop(w, iter, max_iter, step) ==
    IF iter >= max_iter THEN [cfg |-> w.cfg, rng |-> w.rng, ok |-> ~anyOvl(w.cfg)]
    ELSE LET Rest(w1) == IF ~w1.any THEN [cfg |-> w1.cfg, rng |-> w1.rng, ok |-> TRUE]
                          ELSE ResolveLoop(w1, iter + 1, max_iter, step)
         IN  Rest(ResolvePairs([w EXCEPT !.any = FALSE], 1, 2, step))

\* bool resolve_overlaps(Cfg& c, max_iter, step, seed): c as left behind, the
\* generator, and the returned value
resolve_overlaps(rng, c, max_iter, step, seed) ==
    ResolveLoop([cfg |-> c, rng |-> Reseed(rng, seed), any |-> FALSE], 0, max_iter, step)

\* one iteration of the loop of compress_cfg on w = [best, rng, s, go]:
\* go is FALSE after the `break`
CompressStep(w, factor, relax_iters, relax_step, seed) ==
    LET Then(r) == IF ~r.ok THEN [w EXCEPT !.rng = r.rng, !.go = FALSE]
                   ELSE [best |-> r.cfg, rng |-> r.rng, s |-> w.s + 1, go |-> TRUE]
    IN  Then(resolve_overlaps(w.rng, scale_cfg(w.best, factor), relax_iters,
                              relax_step, seed + w.s * 1337))

RECURSIVE CompressLoop(_, _, _, _, _, _)
CompressLoop(w, steps, factor, relax_iters, relax_step, seed) ==
    IF w.s >= steps THEN w
    ELSE LET Rest(w1) ==
                 IF ~w1.go THEN w1
                 ELSE CompressLoop(w1, steps, factor, relax_iters, relax_step, seed)
         IN  Rest(CompressStep(w, factor, relax_iters, relax_step, seed))

compress_cfg(rng, c, steps, factor, relax_iters, relax_step, seed) ==
    IF steps <= 0 \/ factor >= FactorDen THEN [cfg |-> c, rng |-> rng]
    ELSE LET Return(w) == [cfg |-> w.best, rng |-> w.rng]
         IN  Return(CompressLoop([best |-> c, rng |-> rng, s |-> 0, go |-> TRUE],
                                 steps, factor, relax_iters, relax_step, seed))

(***************************************************************************)
(* random_init_cfg  (a scale is in units of 1 / ScaleDen)                  *)
(***************************************************************************)
ScaleDen == 100

NoPoly == [p |-> <<>>, x0 |-> 0, y0 |-> 0, x1 |-> 0, y1 |-> 0]

\* `Cfg c; c.n = n;`: zero poses; the cache is not initialised and is not read
\* before upd(i) fills it
BlankCfg(n) ==
    [n |-> n, x |-> [i \in 1..n |-> 0], y |-> [i \in 1..n |-> 0],
     a |-> [i \in 1..n |-> 0], pl |-> [i \in 1..n |-> NoPoly]]

\* the attempts t, t + 1, ... to place polygon i: w = [cfg, rng, placed]
RECURSIVE PlaceTries(_, _, _, _, _)
PlaceTries(w, i, half, t, max_attempts) ==
    IF t >= max_attempts THEN [w EXCEPT !.placed = FALSE]
    ELSE LET Rest(w1) ==
                 IF \E j \in 1..(i - 1) : overlap(w1.cfg.pl[i], w1.cfg.pl[j])
                 THEN PlaceTries(w1, i, half, t + 1, max_attempts)
                 ELSE w1
         IN  Rest([cfg |-> SetPose(w.cfg, i, Sym2(Draw(w.rng, 0), half),
                                   Sym2(Draw(w.rng, 1), half),
                                   Pos1(Draw(w.rng, 2), 360)),
                   rng |-> Advance(w.rng, 3), placed |-> TRUE])

RECURSIVE PlaceAll(_, _, _, _)
PlaceAll(w, i, half, max_attempts) ==
    IF i > w.cfg.n THEN w
    ELSE LET Rest(w1) == IF w1.placed THEN PlaceAll(w1, i + 1, half, max_attempts)
                          ELSE w1
         IN  Rest(PlaceTries(w, i, half, 0, max_attempts))

RECURSIVE InitAttempts(_, _, _, _, _, _, _)
InitAttempts(rng, n, base_side, scale, attempt, tries, max_attempts) ==
    IF attempt >= Max(1, tries) THEN [ok |-> FALSE, cfg |-> BlankCfg(n), rng |-> rng]
    ELSE LET Rest(w) ==
                 IF w.placed THEN [ok |-> TRUE, cfg |-> w.cfg, rng |-> w.rng]
                 ELSE InitAttempts(w.rng, n, base_side, RDiv(scale * 108, ScaleDen),
                                   attempt + 1, tries, max_attempts)
         IN  Rest(PlaceAll([cfg |-> BlankCfg(n), rng |-> rng, placed |-> TRUE],
                           1, RDiv(base_side * scale, 2 * ScaleDen), max_attempts))

\* bool random_init_cfg(out, n, base_side, side_scale, tries, max_attempts,
\* seed): the returned value, out when it is true, and the generator
random_init_cfg(rng, n, base_side, side_scale, tries, max_attempts, seed) ==
    InitAttempts(Reseed(rng, seed), n, base_side, Max(101, side_scale), 0, tries,
                 max_attempts)

(***************************************************************************)
(* opt_v3                                                                  *)
(*                                                                         *)
(* P holds the tuning arguments: rand_inits, rand_init_max_n,              *)
(* rand_init_scale, rand_init_tries, rand_init_max_attempts,               *)
(* compress_steps, compress_factor, compress_relax_iters,                  *)
(* compress_relax_step, seed_base.                                         *)
(***************************************************************************)
\* T0 = 1.0, Tm = 0.000005, ms = 0.25, rs = 70.0
SaT0 == 1000000
SaTm == 5
SaMs == 500
SaRs == 70
LsIter == 300
FtIterOpt == 150
PopMax == 3

\* pop.push_back(e); sort ascending by side; the sort is the insertion sort
\* std::sort runs on so short a range: e goes after the entries not above it
PopInsert(pop, e) ==
    LET k == Cardinality({q \in 1..Len(pop) : pop[q].s <= e.s})
    IN  SubSeq(pop, 1, k) \o <<e>> \o SubSeq(pop, k + 1, Len(pop))

PopTrim(pop) == IF Len(pop) > PopMax THEN SubSeq(pop, 1, PopMax) ELSE pop

\* the start of restart r: the Cfg and the generator
OptStart(w, c, r, P) ==
    IF P.rand_inits > 0 /\ c.n <= P.rand_init_max_n /\ r < P.rand_inits THEN
        LET Pick(g) == [cfg |-> IF g.ok THEN g.cfg ELSE c, rng |-> g.rng]
        IN  Pick(random_init_cfg(w.rng, c.n, Max(side(c), Unit \div 10),
                                 P.rand_init_scale, P.rand_init_tries,
                                 P.rand_init_max_attempts,
                                 P.seed_base + 777 + r * 1337 + c.n))
    ELSE IF r = 0 THEN [cfg |-> c, rng |-> w.rng]
    ELSE IF r < Len(w.pop) THEN [cfg |-> w.pop[(r % Len(w.pop)) + 1].cfg, rng |-> w.rng]
    ELSE perturb(w.rng, w.pop[1].cfg, Unit \div 10 + (Unit \div 20) * (r % 3),
                 P.seed_base + 42 + r * 1000 + c.n)

\* restart r of opt_v3 on w = [best, bs, pop, rng]
OptRestart(w, c, r, iters, P) ==
    LET Record(o, s, rng1) ==
            IF s < w.bs
            THEN [best |-> o, bs |-> s,
                  pop |-> PopTrim(PopInsert(w.pop, [s |-> s, cfg |-> o])), rng |-> rng1]
            ELSE [w EXCEPT !.pop = PopTrim(PopInsert(w.pop, [s |-> s, cfg |-> o])),
                           !.rng = rng1]
        Measure(o, rng1) == Record(o, side(o), rng1)
        Polish(a) == Measure(fractional_translation(ls_v3(a.cfg, LsIter), FtIterOpt),
                             a.rng)
        Anneal(s1) == Polish(sa_v3(s1.rng, s1.cfg, iters, SaT0, SaTm, SaMs, SaRs,
                                   P.seed_base + 42 + r * 1000 + c.n))
        Compress(s0) ==
            IF P.compress_steps > 0 /\ P.compress_factor < FactorDen
            THEN Anneal(compress_cfg(s0.rng, s0.cfg, P.compress_steps,
                                     P.compress_factor, P.compress_relax_iters,
                                     P.compress_relax_step,
                                     P.seed_base + 9999 + r * 17 + c.n))
            ELSE Anneal(s0)
    IN  Compress(OptStart(w, c, r, P))

OptInit(rng, c) ==
    [best |-> c, bs |-> side(c), pop |-> <<[s |-> side(c), cfg |-> c]>>, rng |-> rng]

RECURSIVE OptLoop(_, _, _, _, _, _)
OptLoop(w, c, r, restarts, iters, P) ==
    IF r >= restarts THEN w
    ELSE LET Rest(w1) == IF w1.bs > w.bs THEN w1
                          ELSE OptLoop(w1, c, r + 1, restarts, iters, P)
         IN  Rest(OptRestart(w, c, r, iters, P))

\* Cfg opt_v3(c, nr, si, seed_base, ...), called with (c, r, iters, ...): the returned Cfg and the generator
opt_v3(rng, c, restarts, iters, P) ==
    LET Return(w) == [cfg |-> w.best, rng |-> w.rng]
    IN  Return(OptLoop(OptInit(rng, c), c, 0, restarts, iters, P))

(***************************************************************************)
(* Geometry harness: two poses are chosen, the polygons are built with     *)
(* getPoly, then overlap is called in both orders and on each polygon with *)
(* itself, and side/score are taken of the one-polygon Cfg of pose A.      *)
(***************************************************************************)
\* the offsets of B are the multiples of GeomStep up to GeomSpan steps, the
\* translations of the overlap scenarios (0.1, 0.7, 1.0 and 10 units), and
\* 0.59, which with 0.4375 puts the lower left vertex of B on the upper right
\* edge of A
GeomStep == 125
GeomSpan == 8
GeomOffsets == {k * GeomStep : k \in (-GeomSpan)..GeomSpan}
                  \cup {Unit \div 10, (7 * Unit) \div 10, Unit, 10 * Unit,
                        (59 * Unit) \div 100}
GeomAnglesA == {0}
GeomAnglesB == {0, 45}

\* the parts of the state a specification does not use
GeomOff ==
    /\ gA = <<0, 0, 0>> /\ gB = <<0, 0, 0>>
    /\ gPA = NoPoly /\ gPB = NoPoly
    /\ gRes = [stage |-> "off"]

OpsOff == oName = "none" /\ oSt = <<>> /\ oPc = "off" /\ oRet = <<>>

\* the values main gives its options before it reads argv
ArgDefaults ==
    /\ min_n = 1 /\ max_n = 200
    /\ max_gens = 3 /\ max_no_improve = 10
    /\ si = 20000 /\ nr = 80 /\ seed_base = 0

MainBlank ==
    /\ cfg = <<>> /\ best_so_far = <<>> /\ current = <<>>
    /\ local = <<>> /\ has = <<>>
    /\ global_best_score = 0 /\ generation = 0 /\ no_improvement_count = 0
    /\ files = <<>> /\ thr = <<>> /\ nextN = 1

MainOff == pc = "off" /\ ArgDefaults /\ MainBlank

InitGeom ==
    /\ OpsOff /\ MainOff
    /\ gA \in {<<0, 0, a>> : a \in GeomAnglesA}
    /\ gB \in {<<dx, dy, a>> : dx \in GeomOffsets, dy \in GeomOffsets, a \in GeomAnglesB}
    /\ gPA = NoPoly
    /\ gPB = NoPoly
    /\ gRes = [stage |-> "posed"]

\* q = getPoly(cx, cy, deg) for both poses
GeomBuild ==
    /\ gRes.stage = "posed"
    /\ gPA' = getPoly(gA[1], gA[2], gA[3])
    /\ gPB' = getPoly(gB[1], gB[2], gB[3])
    /\ gRes' = [stage |-> "built"]
    /\ UNCHANGED <<gA, gB, opsVars, pc, min_n, max_n, argVars, mainVars>>

\* overlap(A, B), overlap(B, A), overlap(A, A)
GeomOverlap ==
    /\ gRes.stage = "built"
    /\ gRes' = [stage |-> "tested",
                ab |-> overlap(gPA, gPB),
                ba |-> overlap(gPB, gPA),
                aa |-> overlap(gPA, gPA)]
    /\ UNCHANGED <<gA, gB, gPA, gPB, opsVars, pc, min_n, max_n, argVars, mainVars>>

\* the Cfg loadCSV builds from the single row of pose A: side() and score()
GeomMeasure ==
    /\ gRes.stage = "tested"
    /\ LET c == MkCfg(<<gA[1]>>, <<gA[2]>>, <<gA[3]>>)
       IN  gRes' = [stage |-> "measured", ab |-> gRes.ab, ba |-> gRes.ba,
                    aa |-> gRes.aa, side |-> side(c), score |-> score(c)]
    /\ UNCHANGED <<gA, gB, gPA, gPB, opsVars, pc, min_n, max_n, argVars, mainVars>>

NextGeom == GeomBuild \/ GeomOverlap \/ GeomMeasure

SpecGeom == InitGeom /\ [][NextGeom]_vars

(***************************************************************************)
(* Routine harness: one routine is called on a starting configuration and  *)
(* runs to its return; sa_v3 takes one step of its loop at a time, ls_v3   *)
(* and fractional_translation one pass, compress_cfg one scaling step.     *)
(***************************************************************************)
\* the starting configurations: one polygon; two polygons a tenth of a unit
\* apart; two polygons that overlap
OpsStarts ==
    {MkCfg(<<0>>, <<0>>, <<0>>),
     MkCfg(<<0, (8 * Unit) \div 10>>, <<0, 0>>, <<0, 0>>),
     MkCfg(<<0, Unit \div 10>>, <<0, 0>>, <<0, 0>>)}
OpsSeeds == {1, 2}
\* the arguments of the calls
OpsSaIter == 12
OpsCompressSteps == 3
OpsCompressFactor == 950
OpsRelaxIters == 10
OpsRelaxStep == 40
OpsInitTries == 4
OpsInitAttempts == 20
OpsInitScale == 120

InitOps ==
    /\ GeomOff /\ MainOff
    /\ oPc = "run" /\ oRet = <<>>
    /\ \E c \in OpsStarts : \E seed \in OpsSeeds :
          \/ /\ oName = "sa_v3"
             /\ oSt = SaInit(Seeded(DefaultSeed), c, OpsSaIter, SaT0, SaTm, SaMs,
                             SaRs, seed)
          \/ /\ oName = "ls_v3"
             /\ oSt = [w |-> [best |-> c, bs |-> side(c), imp |-> FALSE],
                       it |-> 0, go |-> TRUE]
          \/ /\ oName = "fractional_translation"
             /\ oSt = [w |-> [best |-> c, bs |-> side(c), imp |-> FALSE],
                       it |-> 0, go |-> TRUE]
          \/ /\ oName = "compress_cfg"
             /\ oSt = [best |-> c, rng |-> Seeded(DefaultSeed), s |-> 0, go |-> TRUE,
                       seed |-> seed]
          \/ /\ oName = "random_init_cfg"
             /\ oSt = [n |-> c.n, base_side |-> side(c), seed |-> seed]

OpsSaStep ==
    /\ oName = "sa_v3" /\ oPc = "run"
    /\ oSt.it < oSt.iter
    /\ oSt' = SaStep(oSt)
    /\ UNCHANGED <<oName, oPc, oRet, geomVars, pc, min_n, max_n, argVars, mainVars>>

\* return best;
OpsSaReturn ==
    /\ oName = "sa_v3" /\ oPc = "run"
    /\ oSt.it >= oSt.iter
    /\ oRet' = [ok |-> TRUE, cfg |-> oSt.best]
    /\ oPc' = "ret"
    /\ UNCHANGED <<oName, oSt, geomVars, pc, min_n, max_n, argVars, mainVars>>

OpsLsPass ==
    /\ oName = "ls_v3" /\ oPc = "run"
    /\ oSt.go /\ oSt.it < LsIter
    /\ LET After(w1) == [w |-> w1, it |-> oSt.it + 1, go |-> w1.imp]
       IN  oSt' = After(LsPass(oSt.w))
    /\ UNCHANGED <<oName, oPc, oRet, geomVars, pc, min_n, max_n, argVars, mainVars>>

OpsLsReturn ==
    /\ oName = "ls_v3" /\ oPc = "run"
    /\ ~(oSt.go /\ oSt.it < LsIter)
    /\ oRet' = [ok |-> TRUE, cfg |-> oSt.w.best]
    /\ oPc' = "ret"
    /\ UNCHANGED <<oName, oSt, geomVars, pc, min_n, max_n, argVars, mainVars>>

OpsFtPass ==
    /\ oName = "fractional_translation" /\ oPc = "run"
    /\ oSt.go /\ oSt.it < FtIterOpt
    /\ LET After(w1) == [w |-> w1, it |-> oSt.it + 1, go |-> w1.imp]
       IN  oSt' = After(FtPass(oSt.w))
    /\ UNCHANGED <<oName, oPc, oRet, geomVars, pc, min_n, max_n, argVars, mainVars>>

OpsFtReturn ==
    /\ oName = "fractional_translation" /\ oPc = "run"
    /\ ~(oSt.go /\ oSt.it < FtIterOpt)
    /\ oRet' = [ok |-> TRUE, cfg |-> oSt.w.best]
    /\ oPc' = "ret"
    /\ UNCHANGED <<oName, oSt, geomVars, pc, min_n, max_n, argVars, mainVars>>

OpsCompressStep ==
    /\ oName = "compress_cfg" /\ oPc = "run"
    /\ oSt.go /\ oSt.s < OpsCompressSteps
    /\ LET After(w1) == [best |-> w1.best, rng |-> w1.rng, s |-> w1.s, go |-> w1.go,
                         seed |-> oSt.seed]
       IN  oSt' = After(CompressStep([best |-> oSt.best, rng |-> oSt.rng,
                                      s |-> oSt.s, go |-> oSt.go],
                                     OpsCompressFactor, OpsRelaxIters, OpsRelaxStep,
                                     oSt.seed))
    /\ UNCHANGED <<oName, oPc, oRet, geomVars, pc, min_n, max_n, argVars, mainVars>>

OpsCompressReturn ==
    /\ oName = "compress_cfg" /\ oPc = "run"
    /\ ~(oSt.go /\ oSt.s < OpsCompressSteps)
    /\ oRet' = [ok |-> TRUE, cfg |-> oSt.best]
    /\ oPc' = "ret"
    /\ UNCHANGED <<oName, oSt, geomVars, pc, min_n, max_n, argVars, mainVars>>

\* the whole call of random_init_cfg
OpsRandomInit ==
    /\ oName = "random_init_cfg" /\ oPc = "run"
    /\ LET Return(g) == [ok |-> g.ok, cfg |-> g.cfg]
       IN  oRet' = Return(random_init_cfg(Seeded(DefaultSeed), oSt.n,
                                          Max(oSt.base_side, Unit \div 10),
                                          OpsInitScale, OpsInitTries, OpsInitAttempts,
                                          oSt.seed))
    /\ oPc' = "ret"
    /\ UNCHANGED <<oName, oSt, geomVars, pc, min_n, max_n, argVars, mainVars>>

NextOps ==
    \/ OpsSaStep \/ OpsSaReturn
    \/ OpsLsPass \/ OpsLsReturn
    \/ OpsFtPass \/ OpsFtReturn
    \/ OpsCompressStep \/ OpsCompressReturn
    \/ OpsRandomInit

SpecOps == InitOps /\ [][NextOps]_vars

(***************************************************************************)
(* Step harness: the loops of the routines run one iteration at a time.    *)
(* sa_v3 runs long enough to reheat; ls_v3 and fractional_translation make *)
(* one tentative move at a time; perturb makes its kicks, calls updAll and *)
(* runs its repair passes; resolve_overlaps is called with every max_iter  *)
(* of a small range.                                                       *)
(***************************************************************************)
\* the starting configurations: one polygon at 45 degrees; one polygon with
\* an angle below -360, as loadCSV takes it from a row; two polygons apart;
\* two polygons that overlap
StepStarts ==
    {MkCfg(<<0>>, <<0>>, <<45>>),
     MkCfg(<<0>>, <<0>>, <<-500>>),
     MkCfg(<<0, (8 * Unit) \div 10>>, <<0, 0>>, <<0, 0>>),
     MkCfg(<<0, Unit \div 10>>, <<0, 0>>, <<0, 0>>)}
\* the configurations resolve_overlaps is called on: the starts, and two
\* polygons that one pass pushes apart
ResolveStarts ==
    StepStarts \cup {MkCfg(<<0, 1350>>, <<0, 0>>, <<0, 0>>)}
\* the configurations fractional_translation is called on: the starts, and
\* three polygons apart, the second one step to the right of the place where
\* its lower left vertex lies on the upper right edge of the first, the
\* third to the left of both
FtStarts ==
    StepStarts \cup {MkCfg(<<0, 876, -1112>>, <<0, 1180, 1180>>, <<0, 0, 0>>)}
\* the arguments of the calls
SaLongIter == 650
StepStrength == 200
StepRelaxMax == 3

InitSteps ==
    /\ GeomOff /\ MainOff
    /\ oPc = "run" /\ oRet = <<>>
    /\ \E c \in StepStarts : \E seed \in OpsSeeds :
          \/ /\ oName = "sa_v3"
             /\ oSt = SaInit(Seeded(DefaultSeed), c, SaLongIter, SaT0, SaTm, SaMs,
                             SaRs, seed)
          \/ /\ oName = "ls_v3"
             /\ oSt = [w |-> [best |-> c, bs |-> side(c), imp |-> FALSE],
                       it |-> 0, go |-> TRUE, at |-> "pass", order |-> <<>>,
                       k |-> 1, m |-> 1, in |-> c, last |-> "init"]
          \/ /\ oName = "fractional_translation"
             /\ \E d \in FtStarts :
                   oSt = [w |-> [best |-> d, bs |-> side(d), imp |-> FALSE],
                          it |-> 0, go |-> TRUE, at |-> "pass", order |-> <<>>,
                          k |-> 1, m |-> 1, in |-> d, last |-> "init"]
          \/ /\ oName = "perturb"
             /\ oSt = [cfg |-> c, rng |-> Reseed(Seeded(DefaultSeed), seed),
                       left |-> Max(1, (c.n * 15) \div 100), at |-> "kick",
                       pass |-> 0, fixed |-> FALSE]
          \/ /\ oName = "resolve_overlaps"
             /\ \E d \in ResolveStarts, max_iter \in 0..StepRelaxMax :
                   oSt = [cfg |-> d, rng |-> Reseed(Seeded(DefaultSeed), seed),
                          iter |-> 0, max_iter |-> max_iter, any |-> TRUE]

\* the routine that is making tentative moves
Descending == oName \in {"ls_v3", "fractional_translation"} /\ oPc = "run"
StepMoves == IF oName = "ls_v3" THEN LsMoves ELSE FtMoves
StepIter == IF oName = "ls_v3" THEN LsIter ELSE FtIterOpt
StepOrder(c) == IF oName = "ls_v3" THEN LsOrder(c) ELSE [i \in 1..c.n |-> i]

\* bool imp = false; auto corners = best.findCornerTrees();
StepPassBegin ==
    /\ Descending /\ oSt.at = "pass"
    /\ oSt.go /\ oSt.it < StepIter
    /\ oSt' = [oSt EXCEPT !.w.imp = FALSE, !.order = StepOrder(oSt.w.best),
                          !.k = 1, !.m = 1, !.at = "move", !.last = "begin"]
    /\ UNCHANGED <<oName, oPc, oRet, geomVars, pc, min_n, max_n, argVars, mainVars>>

\* one tentative move of the polygon at place k of the order
StepTryMove ==
    /\ Descending /\ oSt.at = "move"
    /\ oSt.k <= Len(oSt.order)
    /\ LET After(w1) ==
               [oSt EXCEPT !.w = w1,
                           !.m = IF oSt.m = Len(StepMoves) THEN 1 ELSE @ + 1,
                           !.k = IF oSt.m = Len(StepMoves) THEN @ + 1 ELSE @,
                           !.last = IF w1.bs # oSt.w.bs THEN "kept" ELSE "reverted"]
       IN  oSt' = After(TryMove(oSt.w, oSt.order[oSt.k], StepMoves[oSt.m]))
    /\ UNCHANGED <<oName, oPc, oRet, geomVars, pc, min_n, max_n, argVars, mainVars>>

\* if (!imp) break;
StepPassEnd ==
    /\ Descending /\ oSt.at = "move"
    /\ oSt.k > Len(oSt.order)
    /\ oSt' = [oSt EXCEPT !.it = @ + 1, !.go = oSt.w.imp, !.at = "pass",
                          !.last = "end"]
    /\ UNCHANGED <<oName, oPc, oRet, geomVars, pc, min_n, max_n, argVars, mainVars>>

\* return best;
StepReturn ==
    /\ Descending /\ oSt.at = "pass"
    /\ ~(oSt.go /\ oSt.it < StepIter)
    /\ oRet' = [ok |-> TRUE, cfg |-> oSt.w.best]
    /\ oPc' = "ret"
    /\ UNCHANGED <<oName, oSt, geomVars, pc, min_n, max_n, argVars, mainVars>>

\* one iteration of for (int k = 0; k < numPerturb; k++)
StepKick ==
    /\ oName = "perturb" /\ oPc = "run"
    /\ oSt.at = "kick" /\ oSt.left > 0
    /\ LET After(r) == [oSt EXCEPT !.cfg = r.cfg, !.rng = r.rng, !.left = @ - 1]
       IN  oSt' = After(PerturbKicks(oSt.cfg, oSt.rng, StepStrength, 1))
    /\ UNCHANGED <<oName, oPc, oRet, geomVars, pc, min_n, max_n, argVars, mainVars>>

\* c.updAll();
StepUpdAll ==
    /\ oName = "perturb" /\ oPc = "run"
    /\ oSt.at = "kick" /\ oSt.left = 0
    /\ oSt' = [oSt EXCEPT !.cfg = updAll(@), !.at = "repair"]
    /\ UNCHANGED <<oName, oPc, oRet, geomVars, pc, min_n, max_n, argVars, mainVars>>

\* one iteration of for (int iter = 0; iter < 100; iter++)
StepRepair ==
    /\ oName = "perturb" /\ oPc = "run"
    /\ oSt.at = "repair" /\ ~oSt.fixed /\ oSt.pass < RepairPasses
    /\ LET After(w1) == [oSt EXCEPT !.cfg = w1.cfg, !.rng = w1.rng,
                                    !.fixed = w1.fixed, !.pass = @ + 1]
       IN  oSt' = After(RepairPass([cfg |-> oSt.cfg, rng |-> oSt.rng,
                                    fixed |-> FALSE]))
    /\ UNCHANGED <<oName, oPc, oRet, geomVars, pc, min_n, max_n, argVars, mainVars>>

\* return c;
StepPerturbReturn ==
    /\ oName = "perturb" /\ oPc = "run"
    /\ oSt.at = "repair" /\ (oSt.fixed \/ oSt.pass >= RepairPasses)
    /\ oRet' = [ok |-> TRUE, cfg |-> oSt.cfg]
    /\ oPc' = "ret"
    /\ UNCHANGED <<oName, oSt, geomVars, pc, min_n, max_n, argVars, mainVars>>

\* one iteration of for (int iter = 0; iter < max_iter; iter++)
StepResolvePass ==
    /\ oName = "resolve_overlaps" /\ oPc = "run"
    /\ oSt.any /\ oSt.iter < oSt.max_iter
    /\ LET After(w1) == [oSt EXCEPT !.cfg = w1.cfg, !.rng = w1.rng, !.any = w1.any,
                                    !.iter = @ + 1]
       IN  oSt' = After(ResolvePairs([cfg |-> oSt.cfg, rng |-> oSt.rng, any |-> FALSE],
                                     1, 2, OpsRelaxStep))
    /\ UNCHANGED <<oName, oPc, oRet, geomVars, pc, min_n, max_n, argVars, mainVars>>

\* if (!any) return true; and, after the loop, return !c.anyOvl();
StepResolveReturn ==
    /\ oName = "resolve_overlaps" /\ oPc = "run"
    /\ ~(oSt.any /\ oSt.iter < oSt.max_iter)
    /\ oRet' = [ok |-> IF ~oSt.any THEN TRUE ELSE ~anyOvl(oSt.cfg), cfg |-> oSt.cfg]
    /\ oPc' = "ret"
    /\ UNCHANGED <<oName, oSt, geomVars, pc, min_n, max_n, argVars, mainVars>>

NextSteps ==
    \/ OpsSaStep \/ OpsSaReturn
    \/ StepPassBegin \/ StepTryMove \/ StepPassEnd \/ StepReturn
    \/ StepKick \/ StepUpdAll \/ StepRepair \/ StepPerturbReturn
    \/ StepResolvePass \/ StepResolveReturn

SpecSteps == InitSteps /\ [][NextSteps]_vars

(***************************************************************************)
(* The single-group tool (single_group_optimizer.cpp)                      *)
(*                                                                         *)
(* Its getPoly and pip are those of the main program; its intersection     *)
(* test, its perturbation and its search are its own.  Its generator is    *)
(* modelled like the main program's.  The tool runs in the routine         *)
(* harness: oSt holds the locals of its main, oRet the exit code and the   *)
(* files written.                                                          *)
(***************************************************************************)
cross(a, b, c) == (b[1] - a[1]) * (c[2] - a[2]) - (b[2] - a[2]) * (c[1] - a[1])

\* segInt of the tool: the two segments cross properly
SgSegInt(a, b, c, d) ==
    LET Opposite(u, v) == (u > 0 /\ v < 0) \/ (u < 0 /\ v > 0)
    IN  /\ Opposite(cross(c, d, a), cross(c, d, b))
        /\ Opposite(cross(a, b, c), cross(a, b, d))

polyIntersect(a, b) ==
    IF a.x1 < b.x0 \/ b.x1 < a.x0 \/ a.y1 < b.y0 \/ b.y1 < a.y0 THEN FALSE
    ELSE \/ \E i \in 1..NV : \E j \in 1..NV :
                SgSegInt(a.p[i], a.p[Nxt(i)], b.p[j], b.p[Nxt(j)])
         \/ pip(a.p[1][1], a.p[1][2], b)
         \/ pip(b.p[1][1], b.p[1][2], a)

\* Cfg::anyOvl of the tool
SgAnyOvl(c) ==
    \E i \in 1..c.n : \E j \in (i + 1)..c.n : polyIntersect(c.pl[i], c.pl[j])

\* Cfg::score of the tool: (s * s) / n over the bounding boxes
SgScore(c) == score(c)

clamp(v, lo, hi) == Max(lo, Min(hi, v))

\* move0 = 0.08, ang0 = 20.0, and the limit 100.0 of perturb
SgMove0 == 160
SgAng0 == 20
SgLimit == 200000

\* perturb(c, rng, move_scale, ang_scale): four values drawn
SgPerturb(c, rng, move, ang) ==
    LET i == (Draw(rng, 0) % c.n) + 1
    IN  [cfg |-> SetPose(c, i,
                         clamp(c.x[i] + Sym2(Draw(rng, 1), move), -SgLimit, SgLimit),
                         clamp(c.y[i] + Sym2(Draw(rng, 2), move), -SgLimit, SgLimit),
                         Fmod360(c.a[i] + Sym2(Draw(rng, 3), ang) + 360)),
         rng |-> Advance(rng, 4)]

\* the iterations i .. iters - 1 of optimizeOne on w = [cur, best, bestScore, rng]
RECURSIVE SgIterate(_, _, _)
SgIterate(w, i, iters) ==
    IF i >= iters THEN w
    ELSE LET Judge(q) ==
                 IF SgAnyOvl(q.cfg) THEN [w EXCEPT !.rng = q.rng]
                 ELSE IF ScoreLess(SgScore(q.cfg), w.bestScore, 0, 1)
                 THEN [cur |-> q.cfg, best |-> q.cfg, bestScore |-> SgScore(q.cfg),
                       rng |-> q.rng]
                 ELSE [w EXCEPT !.cur = q.cfg, !.rng = q.rng]
             Rest(w1) == SgIterate(w1, i + 1, iters)
         IN  Rest(Judge(SgPerturb(w.cur, w.rng,
                                  RDiv(SgMove0 * (100 * iters - 85 * i), 100 * iters),
                                  RDiv(SgAng0 * (100 * iters - 85 * i), 100 * iters))))

optimizeOne(base, iters, seed) ==
    LET Start(c) == [cur |-> c, best |-> c, bestScore |-> SgScore(c),
                     rng |-> Seeded(seed)]
    IN  SgIterate(Start(updAll(base)), 0, iters).best

\* the seed of restart r (r = 0, 1, ...)
SgSeed(r) == 1234 + r * 7777

\* min_element over the scores: the first index of the lowest score
SgBestIdx(bests) ==
    CHOOSE r \in DOMAIN bests :
        /\ \A q \in DOMAIN bests : ~ScoreLess(SgScore(bests[q]), SgScore(bests[r]), 0, 1)
        /\ \A q \in DOMAIN bests :
               q < r => ScoreLess(SgScore(bests[r]), SgScore(bests[q]), 0, 1)

\* it and r of main for the group targetN
SgItersFor(targetN, iters) ==
    IF targetN <= 10 THEN iters * 3
    ELSE IF targetN <= 30 THEN iters * 2
    ELSE IF targetN > 100 THEN (iters * 8) \div 10
    ELSE iters
SgRestartsFor(targetN, restarts) ==
    Max(8, IF targetN <= 10 THEN restarts * 3
           ELSE IF targetN <= 30 THEN restarts * 2
           ELSE IF targetN > 100 THEN Max(8, (restarts * 8) \div 10)
           ELSE restarts)

\* loadCSV of the tool: rows <<x, y, deg>> by group, each group a Cfg
SgLoadCSV(rows) ==
    [g \in DOMAIN rows |->
        MkCfg([i \in 1..Len(rows[g]) |-> rows[g][i][1]],
              [i \in 1..Len(rows[g]) |-> rows[g][i][2]],
              [i \in 1..Len(rows[g]) |-> rows[g][i][3]])]

\* saveCSV of the tool: the rows of the groups 1 .. MAX_N that are present
SgSaveCSV(c) ==
    [g \in (DOMAIN c) \cap (1..MAX_N) |->
        [i \in 1..c[g].n |-> <<c[g].x[i], c[g].y[i], c[g].a[i]>>]]

\* a test that asks for no overlap only
SgKeepsFeasible(o, ns, os) == ~SgAnyOvl(o)

\* if (!o.anyOvl() && ns < os - 1e-12L)
SgKeeps(o, ns, os) == ~SgAnyOvl(o) /\ ScoreLess(ns, os, 0, 1)

\* the input files, the values of GROUP_NUMBER (<<>> when it is not set) and
\* of -n and -r
SgInputs ==
    {(1 :> <<<<0, 0, 0>>>>) @@ (2 :> <<<<0, 0, 0>>, <<1401, 0, 0>>>>),
     (1 :> <<<<0, 0, 45>>>>) @@ (2 :> <<<<0, 0, 0>>, <<200, 0, 0>>>>)}
SgGroups == {<<>>, <<1>>, <<2>>, <<3>>}
SgItersMax == 2
SgRestartsArg == 1

InitSingle ==
    /\ GeomOff /\ MainOff
    /\ oName = "single_group_optimizer"
    /\ oPc = "start" /\ oRet = <<>>
    /\ \E rows \in SgInputs, env \in SgGroups, iters \in 0..SgItersMax :
          oSt = [in |-> rows, env |-> env, iters |-> iters,
                 restarts |-> SgRestartsArg, cfg |-> <<>>, targetN |-> 0,
                 bests |-> <<>>]

\* GROUP_NUMBER is not set, or the group is not in the input: return 1
SgExit ==
    /\ oName = "single_group_optimizer" /\ oPc = "start"
    /\ IF oSt.env = <<>> THEN TRUE ELSE oSt.env[1] \notin DOMAIN oSt.in
    /\ oRet' = [code |-> 1, files |-> <<>>]
    /\ oPc' = "ret"
    /\ UNCHANGED <<oName, oSt, geomVars, pc, min_n, max_n, argVars, mainVars>>

\* auto cfg = loadCSV(in); Cfg c = cfg[targetN];
SgLoad ==
    /\ oName = "single_group_optimizer" /\ oPc = "start"
    /\ oSt.env # <<>> /\ oSt.env[1] \in DOMAIN oSt.in
    /\ oSt' = [oSt EXCEPT !.cfg = SgLoadCSV(oSt.in), !.targetN = oSt.env[1]]
    /\ oPc' = "optimize"
    /\ UNCHANGED <<oName, oRet, geomVars, pc, min_n, max_n, argVars, mainVars>>

\* one iteration r of the parallel loop of optimizeParallel
SgRestart ==
    /\ oName = "single_group_optimizer" /\ oPc = "optimize"
    /\ \E r \in 0..(SgRestartsFor(oSt.targetN, oSt.restarts) - 1) :
          /\ r \notin DOMAIN oSt.bests
          /\ LET Put(o) == [oSt EXCEPT !.bests = (r :> o) @@ @]
             IN  oSt' = Put(optimizeOne(oSt.cfg[oSt.targetN],
                                        SgItersFor(oSt.targetN, oSt.iters), SgSeed(r)))
    /\ UNCHANGED <<oName, oPc, oRet, geomVars, pc, min_n, max_n, argVars, mainVars>>

\* return bests[bestIdx]; then the test of main, cfg[targetN] = o and saveCSV
SgDecide ==
    /\ oName = "single_group_optimizer" /\ oPc = "optimize"
    /\ DOMAIN oSt.bests = 0..(SgRestartsFor(oSt.targetN, oSt.restarts) - 1)
    /\ LET Decide(o) ==
               IF SgKeeps(o, SgScore(o), SgScore(oSt.cfg[oSt.targetN]))
               THEN [code |-> 0, o |-> o,
                     files |-> <<SgSaveCSV([oSt.cfg EXCEPT ![oSt.targetN] = o])>>]
               ELSE [code |-> 0, o |-> o, files |-> <<>>]
       IN  oRet' = Decide(oSt.bests[SgBestIdx(oSt.bests)])
    /\ oPc' = "ret"
    /\ UNCHANGED <<oName, oSt, geomVars, pc, min_n, max_n, argVars, mainVars>>

NextSingle == SgExit \/ SgLoad \/ SgRestart \/ SgDecide

SpecSingle == InitSingle /\ [][NextSingle]_vars

(***************************************************************************)
(* main: the options --min-n and --max-n                                   *)
(***************************************************************************)
\* the integers given to an option on the command line
CliVals == {-5, 0, 1, 2, 50, 199, 200, 201, 300, 500}

\* if (min_n < 1) min_n = 1; if (max_n > 200) max_n = 200;
\* if (min_n > max_n) swap(min_n, max_n);
ClampRange(lo, hi) ==
    LET lo1 == IF lo < 1 THEN 1 ELSE lo
        hi1 == IF hi > 200 THEN 200 ELSE hi
    IN  IF lo1 > hi1 THEN <<hi1, lo1>> ELSE <<lo1, hi1>>

InitCli ==
    /\ GeomOff /\ OpsOff
    /\ pc = "args" /\ ArgDefaults /\ MainBlank

\* the loop over argv: --min-n and --max-n, each given or not
CliParse ==
    /\ pc = "args"
    /\ \E givenA \in BOOLEAN : \E a \in CliVals :
          min_n' = IF givenA THEN a ELSE min_n
    /\ \E givenB \in BOOLEAN : \E b \in CliVals :
          max_n' = IF givenB THEN b ELSE max_n
    /\ pc' = "clamp"
    /\ UNCHANGED <<geomVars, opsVars, argVars, mainVars>>

CliClamp ==
    /\ pc = "clamp"
    /\ min_n' = ClampRange(min_n, max_n)[1]
    /\ max_n' = ClampRange(min_n, max_n)[2]
    /\ pc' = "load"
    /\ UNCHANGED <<geomVars, opsVars, argVars, mainVars>>

NextCli == CliParse \/ CliClamp

SpecCli == InitCli /\ [][NextCli]_vars

(***************************************************************************)
(* Exact contact of two placed polygons, for poses rotated by a multiple   *)
(* of 90 degrees (their vertices are exact on the grid).  The silhouette   *)
(* is the union of four convex pieces: the tip, the middle tier, the       *)
(* bottom tier and the trunk.  Two convex pieces are told apart by a       *)
(* separating axis normal to one of their edges.                           *)
(***************************************************************************)
Pieces == <<<<1, 2, 15>>, <<3, 4, 13, 14>>, <<5, 6, 11, 12>>, <<7, 8, 9, 10>>>>

PieceOf(q, k) == [m \in 1..Len(Pieces[k]) |-> q.p[Pieces[k][m]]]

\* the normals of the edges of the convex polygon c
Normals(c) ==
    {<<c[(m % Len(c)) + 1][2] - c[m][2], c[m][1] - c[(m % Len(c)) + 1][1]>> :
        m \in 1..Len(c)}

Proj(c, ax) == {ax[1] * c[m][1] + ax[2] * c[m][2] : m \in 1..Len(c)}

\* some axis has the two convex polygons on its two sides, not even touching
ApartStrictly(c1, c2) ==
    \E ax \in Normals(c1) \cup Normals(c2) :
        \/ SetMax(Proj(c1, ax)) < SetMin(Proj(c2, ax))
        \/ SetMax(Proj(c2, ax)) < SetMin(Proj(c1, ax))

\* some axis has them on its two sides, possibly touching
ApartOrTouching(c1, c2) ==
    \E ax \in Normals(c1) \cup Normals(c2) :
        \/ SetMax(Proj(c1, ax)) <= SetMin(Proj(c2, ax))
        \/ SetMax(Proj(c2, ax)) <= SetMin(Proj(c1, ax))

InteriorsMeet(a, b) ==
    \E k \in 1..Len(Pieces) : \E m \in 1..Len(Pieces) :
        ~ApartOrTouching(PieceOf(a, k), PieceOf(b, m))

BoundariesMeet(a, b) ==
    \E k \in 1..Len(Pieces) : \E m \in 1..Len(Pieces) :
        ~ApartStrictly(PieceOf(a, k), PieceOf(b, m))

\* the two built polygons touch and their interiors are disjoint
GeomTouching ==
    /\ gRes.stage # "posed"
    /\ gA[3] % 90 = 0 /\ gB[3] % 90 = 0
    /\ BoundariesMeet(gPA, gPB)
    /\ ~InteriorsMeet(gPA, gPB)

GeomTested == gRes.stage \in {"tested", "measured"}

(***************************************************************************)
(* Properties of the geometry (checked under SpecGeom)                     *)
(***************************************************************************)
\* C6, as the program computes it: the one-polygon configuration with pose
\* (0, 0, 0) has side() = 1.0 (the vertical extent, from -0.2 to 0.8) and
\* score() = 1.0.
SideOfTemplateIsOne ==
    (gRes.stage = "measured" /\ gA = <<0, 0, 0>>)
        => /\ gRes.side = Unit
           /\ gRes.score.num = Unit * Unit * gRes.score.den

\* C6 as stated: for the pose (0, 0, 0), side() = 0.7 and score() = 0.49.
SideOfTemplateIsSevenTenths ==
    (gRes.stage = "measured" /\ gA = <<0, 0, 0>>)
        => /\ 10 * gRes.side = 7 * Unit
           /\ 100 * gRes.score.num = 49 * Unit * Unit * gRes.score.den

\* side() and score() have been taken of the pose (0, 0, 0)
TemplateMeasured ==
    gRes.stage = "measured" /\ gA = <<0, 0, 0>> /\ gRes.score.den = 1

\* C7 as stated: overlap is strict; two polygons that only touch (interiors
\* disjoint) are reported as not overlapping.
TouchingIsNotOverlap ==
    (GeomTested /\ GeomTouching) => ~gRes.ab

\* C8 as stated: overlap is symmetric, overlap(A, B) = overlap(B, A), touching
\* and collinear placements included.
OverlapSymmetric == GeomTested => (gRes.ab = gRes.ba)

\* C9: at rotation 0, a polygon overlaps a copy of itself at the same pose
\* and a copy translated by (0.1, 0), and does not overlap a copy translated
\* by (10, 10), whose bounding box is disjoint from its own.
OverlapScenarios ==
    (GeomTested /\ gA = <<0, 0, 0>>)
        => /\ gRes.aa
           /\ (gB = <<0, 0, 0>> => gRes.ab)
           /\ (gB = <<Unit \div 10, 0, 0>> => gRes.ab)
           /\ (gB = <<10 * Unit, 10 * Unit, 0>> => ~gRes.ab)

\* overlap has answered true for the copy translated by (0.1, 0)
OverlapsShiftedCopy ==
    GeomTested /\ gA = <<0, 0, 0>> /\ gB = <<Unit \div 10, 0, 0>> /\ gRes.ab

(***************************************************************************)
(* main: the generation loop                                               *)
(*                                                                         *)
(* pc: "loop" is the test of `while (generation < max_gens)`, "par" the    *)
(* parallel for, "accept" the sequential pass over local[], "global" the   *)
(* comparison of the totals, "save" the final saveCSV, "done" the return.  *)
(* thr[t] is worker thread t: idle or busy with one iteration n, with its  *)
(* thread-local generator.  files lists the saveCSV calls made so far.     *)
(***************************************************************************)
\* the tuning options at their defaults
Tuning ==
    [rand_inits |-> 0, rand_init_max_n |-> 12, rand_init_scale |-> 120,
     rand_init_tries |-> 4, rand_init_max_attempts |-> 2000, compress_steps |-> 0,
     compress_factor |-> 990, compress_relax_iters |-> 60, compress_relax_step |-> 40]

\* r and iters of the iteration for group n
RestartsFor(n) ==
    IF n <= 20 THEN Max(6, nr)
    ELSE IF n <= 50 THEN Max(5, nr)
    ELSE IF n > 150 THEN Max(4, nr)
    ELSE nr

ItersFor(n) ==
    IF n <= 20 THEN (si * 15) \div 10
    ELSE IF n <= 50 THEN (si * 13) \div 10
    ELSE IF n > 150 THEN (si * 8) \div 10
    ELSE si

FtIterMain == 120

\* a candidate whose seeds move with the generation number
CandidateByGeneration(rng, c) ==
    LET Translate(o) == [cfg |-> fractional_translation(o.cfg, FtIterMain),
                         rng |-> o.rng]
    IN  Translate(opt_v3(rng, c, RestartsFor(c.n), ItersFor(c.n),
                         [seed_base |-> seed_base + generation - 1] @@ Tuning))

\* candidate = fractional_translation(opt_v3(c, r, iters, seed_base, ...), 120)
\* on a thread whose generator is rng
Candidate(rng, c) ==
    LET Translate(o) == [cfg |-> fractional_translation(o.cfg, FtIterMain),
                         rng |-> o.rng]
    IN  Translate(opt_v3(rng, c, RestartsFor(c.n), ItersFor(c.n),
                         [seed_base |-> seed_base] @@ Tuning))

\* the sum of the scores of the groups of m, over the product of their sizes
RECURSIVE ProductOf(_)
ProductOf(S) == IF S = {} THEN 1
                ELSE LET n == CHOOSE k \in S : TRUE IN n * ProductOf(S \ {n})

RECURSIVE SumScores(_, _, _)
SumScores(m, S, den) ==
    IF S = {} THEN 0
    ELSE LET n == CHOOSE k \in S : TRUE
         IN  score(m[n]).num * (den \div score(m[n]).den) + SumScores(m, S \ {n}, den)

TotalScore(m) ==
    [num |-> SumScores(m, DOMAIN m, ProductOf(DOMAIN m)), den |-> ProductOf(DOMAIN m)]

\* the iterations of the parallel for that get past the two `continue`s
\* a loop that takes every group present, whatever the range
InRangeAny(n) == n \in DOMAIN current

\* it != current.end(), and not (n < min_n || n > max_n)
InRange(n) == n \in DOMAIN current /\ n >= min_n /\ n <= max_n

Pending == {n \in nextN..MAX_N : InRange(n)}

\* if (no_improvement_count > max_no_improve) break;
ShouldBreakNever(count) == FALSE
ShouldBreak(count) == count > max_no_improve

\* while (generation < max_gens) { generation++; current = best_so_far; ...
BeginGeneration ==
    /\ pc = "loop"
    /\ generation < max_gens
    /\ generation' = generation + 1
    /\ current' = best_so_far
    /\ local' = [n \in 1..MAX_N |-> BlankCfg(0)]
    /\ has' = [n \in 1..MAX_N |-> FALSE]
    /\ nextN' = 1
    /\ pc' = "par"
    /\ UNCHANGED <<geomVars, opsVars, min_n, max_n, argVars, cfg, best_so_far,
                   global_best_score, no_improvement_count, files, thr>>

ExitLoop ==
    /\ pc = "loop"
    /\ ~(generation < max_gens)
    /\ pc' = "save"
    /\ UNCHANGED <<geomVars, opsVars, min_n, max_n, argVars, mainVars>>

\* an idle thread takes the next iteration (schedule(dynamic, 1)) and copies
\* the group: Cfg c = it->second
ParStart(t) ==
    /\ pc = "par"
    /\ thr[t].n = 0
    /\ Pending # {}
    /\ LET n == SetMin(Pending)
       IN  /\ thr' = [thr EXCEPT ![t].n = n, ![t].c = current[n]]
           /\ nextN' = n + 1
    /\ UNCHANGED <<geomVars, opsVars, pc, min_n, max_n, argVars, cfg, best_so_far,
                   current, local, has, global_best_score, generation,
                   no_improvement_count, files>>

\* the iteration that files its candidate under the number of the thread
ParFinishByThread(t) ==
    /\ pc = "par"
    /\ thr[t].n # 0
    /\ LET Store(cand) ==
               /\ local' = [local EXCEPT ![t] = cand.cfg]
               /\ thr' = [thr EXCEPT ![t] = [n |-> 0, c |-> BlankCfg(0),
                                             rng |-> cand.rng]]
       IN  Store(Candidate(thr[t].rng, thr[t].c))
    /\ has' = [has EXCEPT ![t] = TRUE]
    /\ UNCHANGED <<geomVars, opsVars, pc, min_n, max_n, argVars, cfg, best_so_far,
                   current, global_best_score, generation, no_improvement_count,
                   files, nextN>>

\* the rest of the iteration: the candidate, local[n] = candidate, has[n] = 1
ParFinish(t) ==
    /\ pc = "par"
    /\ thr[t].n # 0
    /\ LET Store(cand) ==
               /\ local' = [local EXCEPT ![thr[t].n] = cand.cfg]
               /\ thr' = [thr EXCEPT ![t] = [n |-> 0, c |-> BlankCfg(0),
                                             rng |-> cand.rng]]
       IN  Store(Candidate(thr[t].rng, thr[t].c))
    /\ has' = [has EXCEPT ![thr[t].n] = TRUE]
    /\ UNCHANGED <<geomVars, opsVars, pc, min_n, max_n, argVars, cfg, best_so_far,
                   current, global_best_score, generation, no_improvement_count,
                   files, nextN>>

\* the end of the parallel region
ParEnd ==
    /\ pc = "par"
    /\ Pending = {}
    /\ \A t \in DOMAIN thr : thr[t].n = 0
    /\ pc' = "accept"
    /\ UNCHANGED <<geomVars, opsVars, min_n, max_n, argVars, mainVars>>

\* for (n = 1..200) if (has[n] && new_n_score < old_n_score - 1e-9)
\*     it->second = cand;
AcceptPass ==
    /\ pc = "accept"
    /\ current' = [n \in DOMAIN current |->
                     IF has[n] /\ ScoreLess(score(local[n]), score(current[n]), 1, 250)
                     THEN local[n] ELSE current[n]]
    /\ pc' = "global"
    /\ UNCHANGED <<geomVars, opsVars, min_n, max_n, argVars, cfg, best_so_far, local,
                   has, global_best_score, generation, no_improvement_count, files,
                   thr, nextN>>

\* new_total, improved, the solutions file, the counter and the break
GlobalUpdate ==
    /\ pc = "global"
    /\ IF ScoreLess(TotalScore(current), global_best_score, 1, 25)
       THEN /\ global_best_score' = TotalScore(current)
            /\ best_so_far' = current
            /\ files' = Append(files, [kind |-> "solution", data |-> current])
            /\ no_improvement_count' = 0
            /\ pc' = IF ShouldBreak(0) THEN "save" ELSE "loop"
       ELSE /\ no_improvement_count' = no_improvement_count + 1
            /\ pc' = IF ShouldBreak(no_improvement_count + 1) THEN "save" ELSE "loop"
            /\ UNCHANGED <<global_best_score, best_so_far, files>>
    /\ UNCHANGED <<geomVars, opsVars, min_n, max_n, argVars, cfg, current, local, has,
                   generation, thr, nextN>>

\* saveCSV(out, best_so_far); return 0;
SaveFinal ==
    /\ pc = "save"
    /\ files' = Append(files, [kind |-> "out", data |-> best_so_far])
    /\ pc' = "done"
    /\ UNCHANGED <<geomVars, opsVars, min_n, max_n, argVars, cfg, best_so_far,
                   current, local, has, global_best_score, generation,
                   no_improvement_count, thr, nextN>>

\* The runs checked: the loaded input, the options and the number of
\* threads.  Every group of every input is overlap-free.
OneTree(deg) == (1 :> MkCfg(<<0>>, <<0>>, <<deg>>))
TwoGroups(deg) ==
    (1 :> MkCfg(<<0>>, <<0>>, <<deg>>)) @@
    (2 :> MkCfg(<<0, 1401>>, <<0, 0>>, <<0, 0>>))
ThreeTrees == (3 :> MkCfg(<<475, 1401, 2606>>, <<146, 0, 117>>, <<23, 0, 41>>))

GensMax == 2
NoImproveMax == 1

\* one group and one thread, for every small max_gens and max_no_improve,
\* and the group of three trees under a seed that finds nothing better
DriverRuns ==
    {[in |-> OneTree(deg), gens |-> g, noimp |-> m, si |-> 2, seed |-> 0, threads |-> 1,
      lo |-> 1, hi |-> 200] :
        deg \in {0, 45}, g \in 0..GensMax, m \in (-1)..NoImproveMax}
    \cup
    {[in |-> ThreeTrees, gens |-> 2, noimp |-> 1, si |-> 0, seed |-> 2, threads |-> 1,
      lo |-> 1, hi |-> 200]}

\* teams of two threads, groups inside and outside the range, and the group
\* of three trees
TeamRuns ==
    {[in |-> TwoGroups(0), gens |-> 1, noimp |-> 10, si |-> 0, seed |-> 0,
      threads |-> 2, lo |-> 1, hi |-> 200],
     [in |-> TwoGroups(0), gens |-> 2, noimp |-> 10, si |-> 2, seed |-> 0,
      threads |-> 2, lo |-> 1, hi |-> 1],
     [in |-> OneTree(45), gens |-> 2, noimp |-> 10, si |-> 2, seed |-> 7,
      threads |-> 2, lo |-> 1, hi |-> 200],
     [in |-> ThreeTrees, gens |-> 1, noimp |-> 10, si |-> 0, seed |-> 29,
      threads |-> 1, lo |-> 1, hi |-> 200]}

\* the state after loadCSV and the declarations before the loop
InitRun(run) ==
    /\ GeomOff /\ OpsOff
    /\ cfg = run.in /\ best_so_far = run.in
    /\ global_best_score = TotalScore(run.in)
    /\ max_gens = run.gens /\ max_no_improve = run.noimp
    /\ si = run.si /\ nr = 1 /\ seed_base = run.seed
    /\ min_n = run.lo /\ max_n = run.hi
    /\ thr = [t \in 1..run.threads |->
                [n |-> 0, c |-> BlankCfg(0), rng |-> Seeded(DefaultSeed)]]
    /\ current = <<>> /\ local = <<>> /\ has = <<>>
    /\ generation = 0 /\ no_improvement_count = 0
    /\ files = <<>> /\ nextN = 1
    /\ pc = "loop"

InitDriver == \E run \in DriverRuns : InitRun(run)

InitTeam == \E run \in TeamRuns : InitRun(run)

NextDriver ==
    \/ BeginGeneration \/ ExitLoop
    \/ \E t \in DOMAIN thr : ParStart(t) \/ ParFinish(t)
    \/ ParEnd \/ AcceptPass \/ GlobalUpdate \/ SaveFinal

\* the steps of main outside the body of the parallel loop
Sequential ==
    \/ BeginGeneration \/ ExitLoop
    \/ \E t \in DOMAIN thr : ParStart(t)
    \/ ParEnd \/ AcceptPass \/ GlobalUpdate \/ SaveFinal

\* weak fairness of the team finishing its iterations, with the enabling
\* condition of ParFinish written out: a thread is in an iteration
FairFinish ==
    \/ []<>~(pc = "par" /\ \E t \in DOMAIN thr : thr[t].n # 0)
    \/ []<><<\E t \in DOMAIN thr : ParFinish(t)>>_vars

\* main keeps running: the sequential code takes its next step, and a team
\* with iterations in hand finishes one (opt_v3 and fractional_translation
\* are bounded loops)
SpecDriver ==
    InitDriver /\ [][NextDriver]_vars /\ WF_vars(Sequential) /\ FairFinish

SpecTeam == InitTeam /\ [][NextDriver]_vars

(***************************************************************************)
(* Properties of the generation loop (checked under SpecDriver, SpecTeam)  *)
(***************************************************************************)
\* the side of the bounding square of c, measured on the vertices themselves
BoxSide(c) ==
    LET xs == {c.pl[i].p[k][1] : i \in 1..c.n, k \in 1..NV}
        ys == {c.pl[i].p[k][2] : i \in 1..c.n, k \in 1..NV}
    IN  Max(SetMax(xs) - SetMin(xs), SetMax(ys) - SetMin(ys))

\* score(new) < score(old) - 1e-9 for two configurations of n polygons:
\* 1e-9 is 1/250 of a squared grid unit
BetterByTolerance(new, old, n) ==
    250 * (BoxSide(old) * BoxSide(old) - BoxSide(new) * BoxSide(new)) > n

\* C2 as stated: when every group of the input is overlap-free, no group of
\* best_so_far, and no group of a file written, has two overlapping polygons,
\* after any number of generations.
BestStaysFeasible ==
    (\A n \in DOMAIN cfg : ~anyOvl(cfg[n]))
        => /\ \A n \in DOMAIN best_so_far : ~anyOvl(best_so_far[n])
           /\ \A f \in 1..Len(files) : \A n \in DOMAIN files[f].data :
                 ~anyOvl(files[f].data[n])

\* C3: a group of best_so_far is replaced only by a configuration whose score
\* is smaller than that of the replaced one by more than 1e-9, so that the
\* score of every group of best_so_far, and of the output file, is at most
\* its score in the input.
ReplacedOnlyByBetter ==
    /\ [][\A n \in DOMAIN best_so_far :
             best_so_far'[n] # best_so_far[n]
                 => BetterByTolerance(best_so_far'[n], best_so_far[n], n)]_vars
    /\ [](\A n \in DOMAIN best_so_far : BoxSide(best_so_far[n]) <= BoxSide(cfg[n]))
    /\ [](\A f \in 1..Len(files) : \A n \in DOMAIN cfg :
             BoxSide(files[f].data[n]) <= BoxSide(cfg[n]))

\* a run has ended with a group of the output that is not the one of the input
GroupWasReplaced ==
    /\ pc = "done"
    /\ \E n \in DOMAIN cfg : files[Len(files)].data[n] # cfg[n]

\* what holds of the slots in the parallel phase and after it
SlotsInOrder ==
    /\ pc = "par" =>
          /\ current = best_so_far
          /\ \A n \in 1..MAX_N :
                /\ has[n] => (InRange(n) /\ n < nextN /\ \A t \in DOMAIN thr : thr[t].n # n)
                /\ ~has[n] => local[n] = BlankCfg(0)
    /\ pc = "accept" =>
          /\ current = best_so_far
          /\ \A n \in 1..MAX_N : has[n] <=> InRange(n)
          /\ \A n \in 1..MAX_N : ~has[n] => local[n] = BlankCfg(0)
    /\ pc = "global" =>
          current = [n \in DOMAIN best_so_far |->
                       IF has[n] /\ BetterByTolerance(local[n], best_so_far[n], n)
                       THEN local[n] ELSE best_so_far[n]]

\* C4: in the parallel phase the workers leave `current` alone and write
\* local[n] and has[n] of the iterations they have been handed only; the
\* candidate a thread stores for a group, and the generator it is left with,
\* are those of a thread that starts the iteration with a fresh generator,
\* whatever the thread has run before; so at the end of the phase, on every
\* schedule, has[n] is set for exactly the groups in the range, local[n] is
\* that candidate, and the acceptance pass makes of them a `current` that
\* depends on nothing else.
CandidatesScheduleFree ==
    /\ []SlotsInOrder
    /\ [][\A t \in DOMAIN thr :
             (pc = "par" /\ thr[t].n # 0 /\ thr'[t].n = 0)
                 => LET Same(ref) == /\ local'[thr[t].n] = ref.cfg
                                     /\ thr'[t].rng = ref.rng
                    IN  Same(Candidate(Seeded(DefaultSeed), thr[t].c))]_vars

\* the parallel phase of a team of two has ended, one thread having run both
\* groups, the second of them with the generator the first left behind
OneThreadRanBoth ==
    /\ pc = "accept"
    /\ Len(thr) = 2
    /\ has[1] /\ has[2]
    /\ thr[1].rng # Seeded(DefaultSeed)
    /\ thr[2].rng = Seeded(DefaultSeed)

\* what holds of the loop counters and of the files in every state of main
LoopBounds ==
    /\ generation >= 0 /\ generation <= Max(0, max_gens)
    /\ (pc = "loop" /\ generation > 0) => no_improvement_count <= max_no_improve
    /\ pc \in {"save", "done"} =>
          (generation >= max_gens \/ no_improvement_count > max_no_improve)
    /\ pc # "done" => \A f \in 1..Len(files) : files[f].kind # "out"
    /\ pc = "done" =>
          /\ Len(files) >= 1
          /\ files[Len(files)] = [kind |-> "out", data |-> best_so_far]
          /\ \A f \in 1..(Len(files) - 1) : files[f].kind # "out"

\* C10: main terminates; it runs at most max_gens generations and leaves the
\* loop before that exactly when no_improvement_count exceeds max_no_improve;
\* when it ends, best_so_far has been written to the output file once, as
\* the last file, also when no generation has run.
DriverTerminates ==
    /\ []LoopBounds
    /\ <>(pc = "done")

\* main has ended before max_gens generations have run
StoppedEarly ==
    /\ pc = "done"
    /\ generation >= 1 /\ generation < max_gens
    /\ no_improvement_count > max_no_improve

(***************************************************************************)
(* Properties of the routines (checked under SpecOps)                      *)
(***************************************************************************)
\* C1 as stated: for every starting configuration, overlapping ones included,
\* the Cfg returned by sa_v3, ls_v3, fractional_translation and compress_cfg,
\* and the one random_init_cfg produces when it returns true, has
\* anyOvl() = false.
ReturnedIsFeasible ==
    (oPc = "ret" /\ oRet.ok) => ~anyOvl(oRet.cfg)

(***************************************************************************)
(* Properties of the option handling (checked under SpecCli)               *)
(***************************************************************************)
\* C5 as stated: after command-line processing, for every pair of integers
\* given to --min-n and --max-n, 1 <= min_n <= max_n <= 200.
RangeWithinLimits ==
    pc = "load" => (1 <= min_n /\ min_n <= max_n /\ max_n <= 200)

(***************************************************************************)
(* Properties of the loops (checked under SpecSteps)                       *)
(***************************************************************************)
\* every angle of d that differs from the one in c lies in [0, 360)
ChangedAnglesNormal(c, d) ==
    \A i \in 1..d.n : d.a[i] # c.a[i] => (0 <= d.a[i] /\ d.a[i] < 360)

\* C11 as stated: for every starting configuration, an angle changed by a
\* move sa_v3 keeps, by a rotation ls_v3 keeps, or by a kick or a repair
\* pass of perturb, lies in [0, 360) afterwards.
MutatedAnglesInRange ==
    [][/\ (oName = "sa_v3" /\ oSt'.last \in {"improved", "accepted"})
              => ChangedAnglesNormal(oSt.cur, oSt'.cur)
       /\ (Descending /\ oSt'.last = "kept")
              => ChangedAnglesNormal(oSt.w.best, oSt'.w.best)
       /\ (oName = "perturb" /\ oPc' = "run")
              => ChangedAnglesNormal(oSt.cfg, oSt'.cfg)]_vars

\* C12: in sa_v3 called with Tm <= T0, at the start of every step and after
\* every step (steps that reheat and steps cut short by an overlap revert
\* included), Tm <= T <= T0.
TemperatureInRange ==
    (oName = "sa_v3" /\ oSt.Tm <= oSt.T0)
        => (oSt.Tm <= oSt.T /\ oSt.T <= oSt.T0)

\* a step has just reheated: noImp is back at 0 though the step found no
\* new best
SaReheated ==
    /\ oName = "sa_v3"
    /\ oSt.last \in {"accepted", "rejected"}
    /\ oSt.noImp = 0
    /\ oSt.T > oSt.Tm

\* C13: in ls_v3 and fractional_translation, bs never increases from one
\* tentative move to the next, bs is side() of the working configuration
\* whenever a tentative move has been kept or reverted, and the returned
\* configuration has side() <= side() of the input.
SideNeverWorsens ==
    /\ [][Descending => oSt'.w.bs <= oSt.w.bs]_vars
    /\ []((Descending /\ oSt.last \in {"kept", "reverted"})
              => oSt.w.bs = side(oSt.w.best))
    /\ []((oName \in {"ls_v3", "fractional_translation"} /\ oPc = "ret")
              => side(oRet.cfg) <= side(oSt.in))

\* ls_v3 has returned a configuration of smaller side than its input
LsImprovedInput ==
    /\ oName = "ls_v3" /\ oPc = "ret"
    /\ side(oRet.cfg) < side(oSt.in)

(***************************************************************************)
(* Properties of the single-group tool (checked under SpecSingle)          *)
(***************************************************************************)
\* C14: the tool writes the output file exactly when the optimised
\* configuration o of the target group has no overlapping pair and a score
\* below the score of the loaded group (the side is measured on the
\* vertices; both configurations have the same n); the file then holds o
\* for the target group and the loaded rows for every other group; when it
\* does not write, no file is produced.
WritesOnlyImprovement ==
    (oName = "single_group_optimizer" /\ oPc = "ret") =>
        IF oRet.code # 0 THEN oRet.files = <<>>
        ELSE LET Wrote == oRet.files # <<>>
                 Better == BoxSide(oRet.o) < BoxSide(oSt.cfg[oSt.targetN])
                 OnlyTarget(f) ==
                     /\ DOMAIN f = DOMAIN oSt.in
                     /\ \A g \in DOMAIN f :
                           IF g = oSt.targetN
                           THEN f[g] = [i \in 1..oRet.o.n |->
                                          <<oRet.o.x[i], oRet.o.y[i], oRet.o.a[i]>>]
                           ELSE f[g] = oSt.in[g]
             IN  /\ Wrote <=> (~SgAnyOvl(oRet.o) /\ Better)
                 /\ Wrote => (Len(oRet.files) = 1 /\ OnlyTarget(oRet.files[1]))

\* the tool has written its output for a group that had a neighbour group
SgWroteOutput ==
    /\ oName = "single_group_optimizer" /\ oPc = "ret"
    /\ oRet.files # <<>>
    /\ oRet.code = 0

\* the tentative move of the coming step is feasible and fails the
\* acceptance test: delta >= 0 and the draw is not below exp(-delta / T)
FailsAcceptance(st, m) ==
    /\ ~m.early
    /\ side(m.cur) - st.cs >= 0
    /\ ~Metropolis(Draw(st.rng, m.k), side(m.cur) - st.cs, st.T)

\* C15: in sa_v3, a feasible tentative move that fails the acceptance test
\* resets cur to best and cs to bs; an infeasible tentative move leaves cur
\* with every polygon at its pose of before the move and cs as it was, and
\* draws no value for an acceptance test.
RejectRestartsFromBest ==
    [][(oName = "sa_v3" /\ oSt'.it = oSt.it + 1) =>
          LET Holds(m) ==
                  /\ FailsAcceptance(oSt, m) =>
                        /\ oSt'.cur = oSt.best /\ oSt'.cs = oSt.bs
                        /\ oSt'.best = oSt.best /\ oSt'.bs = oSt.bs
                  /\ m.early =>
                        /\ oSt'.cur = oSt.cur /\ oSt'.cs = oSt.cs
                        /\ oSt'.best = oSt.best /\ oSt'.bs = oSt.bs
                        /\ oSt'.rng = Advance(oSt.rng, m.k)
          IN  Holds(SaMove(oSt))]_vars

\* cur has left best, and the step about to run fails the acceptance test
RejectionAwayFromBest ==
    /\ oName = "sa_v3" /\ oPc = "run"
    /\ oSt.it < oSt.iter
    /\ oSt.cur # oSt.best
    /\ FailsAcceptance(oSt, SaMove(oSt))

\* C16 as stated: the reheat test is made at the end of every step, so
\* noImp never exceeds 601 at a step boundary.
NoImpAtMost601 ==
    oName = "sa_v3" => oSt.noImp <= ReheatAfter + 1

\* C16, amended: the reheat test is made only at the end of a step that
\* reaches the acceptance test.  After such a step noImp <= 600; when the
\* step found no new best and noImp had counted past 600, T was set to
\* min(3 * T, 0.7 * T0) before the cooling and noImp is 0.  A step that ends
\* early (overlap revert, move 6 without a corner polygon) adds 1 to noImp
\* and cools T without the reheat test.
ReheatOnlyAfterAcceptanceTest ==
    [][(oName = "sa_v3" /\ oSt'.it = oSt.it + 1) =>
          LET Holds(m) ==
                  IF m.early
                  THEN /\ oSt'.noImp = oSt.noImp + 1
                       /\ oSt'.T = Cool(oSt.T, oSt.alpha, oSt.Tm)
                  ELSE /\ oSt'.noImp <= ReheatAfter
                       /\ IF oSt'.last # "improved" /\ oSt.noImp + 1 > ReheatAfter
                          THEN /\ oSt'.noImp = 0
                               /\ oSt'.T = Cool(Min(3 * oSt.T, (7 * oSt.T0) \div 10),
                                                oSt.alpha, oSt.Tm)
                          ELSE oSt'.T = Cool(oSt.T, oSt.alpha, oSt.Tm)
          IN  Holds(SaMove(oSt))]_vars

\* steps that ended early have carried noImp past 601
NoImpPastReheat ==
    /\ oName = "sa_v3"
    /\ oSt.noImp > ReheatAfter + 1
    /\ oSt.last = "reverted"

\* every cached polygon of c is getPoly of the pose it belongs to
Cached(c) == \A i \in 1..c.n : c.pl[i] = getPoly(c.x[i], c.y[i], c.a[i])

\* the working configurations of the routine that is running, those of
\* perturb's kick loop left out
CachedOutsideKicks ==
    /\ oName = "sa_v3" => (Cached(oSt.cur) /\ Cached(oSt.best))
    /\ oName \in {"ls_v3", "fractional_translation"} => Cached(oSt.w.best)
    /\ oName = "resolve_overlaps" => Cached(oSt.cfg)

\* C17 as stated: given an input whose cache matches its poses, at every
\* step boundary of sa_v3, ls_v3, fractional_translation, perturb and
\* resolve_overlaps, pl[i] = getPoly(x[i], y[i], a[i]) for every i.
CacheMatchesPoses ==
    /\ CachedOutsideKicks
    /\ oName = "perturb" => Cached(oSt.cfg)

\* C17, amended: the same at every step boundary of sa_v3, ls_v3,
\* fractional_translation and resolve_overlaps, and in perturb before the
\* first kick and from the updAll() after the kick loop on (every repair
\* pass, the return); the kicks themselves write poses without upd.
CacheMatchesAfterUpd ==
    /\ CachedOutsideKicks
    /\ (oName = "perturb" /\ (oSt.at = "repair" \/ oSt.left = Max(1, (oSt.cfg.n * 15) \div 100)))
           => Cached(oSt.cfg)

\* a repair pass of perturb has moved a polygon and rebuilt its cache
PerturbRepaired ==
    /\ oName = "perturb" /\ oSt.at = "repair"
    /\ oSt.pass > 0 /\ ~oSt.fixed

\* C18: resolve_overlaps returns true exactly when the configuration it
\* leaves behind has no overlapping pair, for every max_iter >= 0, also when
\* the last permitted pass still moved polygons.
ResolveTellsFeasibility ==
    (oName = "resolve_overlaps" /\ oPc = "ret")
        => (oRet.ok <=> ~anyOvl(oRet.cfg))

\* the last permitted pass moved polygons, and the call returned true
ResolvedByLastPass ==
    /\ oName = "resolve_overlaps" /\ oPc = "ret"
    /\ oSt.max_iter > 0 /\ oSt.iter = oSt.max_iter
    /\ oSt.any
    /\ oRet.ok

(***************************************************************************)
(* Properties of the generations (checked under SpecTeam, SpecDriver)      *)
(***************************************************************************)
\* group n of the input is outside [min_n, max_n]
OutOfRange(n) == n < min_n \/ n > max_n

\* C19: a group outside [min_n, max_n] keeps the poses loaded from the input
\* in best_so_far, in current and in every file written, after any number
\* of generations; a thread only ever works on, and a candidate is only
\* ever filed for, a group of the input inside the range.
OutsideRangeUntouched ==
    /\ \A n \in DOMAIN cfg :
          OutOfRange(n) =>
              /\ best_so_far[n] = cfg[n]
              /\ (current # <<>> => current[n] = cfg[n])
              /\ \A k \in 1..Len(files) : files[k].data[n] = cfg[n]
    /\ \A t \in DOMAIN thr :
          thr[t].n # 0 => (thr[t].n \in DOMAIN cfg /\ ~OutOfRange(thr[t].n))
    /\ \A n \in DOMAIN has :
          has[n] => (n \in DOMAIN cfg /\ ~OutOfRange(n))
    /\ \A n \in DOMAIN best_so_far :
          best_so_far[n] # cfg[n] => ~OutOfRange(n)

\* a run whose input has a group outside the range has replaced a group
\* inside it and written the result
ReplacedBesideOutsider ==
    /\ pc = "done"
    /\ \E n \in DOMAIN cfg : OutOfRange(n)
    /\ \E n \in DOMAIN cfg : best_so_far[n] # cfg[n]
    /\ generation >= 2

\* C20: once a generation has ended without a global improvement
\* (no_improvement_count >= 1), no later step of the run changes
\* best_so_far or global_best_score, and the count of generations without
\* improvement is never reset.
StagnationIsFinal ==
    [][no_improvement_count >= 1 =>
          /\ best_so_far' = best_so_far
          /\ global_best_score' = global_best_score
          /\ no_improvement_count' >= no_improvement_count]_vars

\* a further generation ran to its end after one without improvement
RanAgainAfterStagnation ==
    /\ generation >= 2
    /\ no_improvement_count >= 2
    /\ pc = "done"
    /\ 3 \in DOMAIN cfg

(***************************************************************************)
(* Overlap-freeness inside the loops (checked under SpecSteps)             *)
(***************************************************************************)
\* C21: started on an overlap-free configuration, sa_v3, ls_v3 and
\* fractional_translation keep their working configuration overlap-free at
\* every step boundary (cur and best of sa_v3, best of the other two), and
\* return an overlap-free configuration.
LoopsStayOverlapFree ==
    /\ [][(oName = "sa_v3" /\ ~anyOvl(oSt.cur) /\ ~anyOvl(oSt.best))
              => (~anyOvl(oSt'.cur) /\ ~anyOvl(oSt'.best))]_vars
    /\ []((oName = "sa_v3" /\ oPc = "ret" /\ ~anyOvl(oSt.best))
              => ~anyOvl(oRet.cfg))
    /\ []((oName \in {"ls_v3", "fractional_translation"} /\ ~anyOvl(oSt.in))
              => /\ ~anyOvl(oSt.w.best)
                 /\ oPc = "ret" => ~anyOvl(oRet.cfg))

=============================================================================
